---- MODULE Spec2Model ----
(***************************************************************************)
(* The OpenAPI-to-tool compiler of the Statsig MCP server: tool naming and *)
(* registration (buildTools), the tool handler (dispatch), and the         *)
(* OpenAPI-schema-to-zod conversion.                                       *)
(*                                                                         *)
(* Text is modelled as a sequence of one-character strings; a fixed literal *)
(* of the source (a message prefix, the base URL) stands as one element.   *)
(***************************************************************************)
EXTENDS Integers, Sequences, FiniteSets, TLC

\* ------------------------------------------------------------------ bounds
MaxPaths == 3
MaxTail == 2
MaxParams == 2
MaxMembers == 2
MaxCalls == 2
MaxChain == 2
MaxItems == 2
MaxServed == 1
StackLimit == 6

\* substring(0, 40) of the sanitized endpoint
NameLimit == 40

\* ------------------------------------------------------------------ state
VARIABLES
  schema,               \* entries of converter.specToZod() iterated so far
  showWarehouseNative,  \* buildTools' deployment mode
  toolNames,            \* the Set<string> of identifiers handed out
  assigned,             \* toolName of each iteration, in iteration order
  tools,                \* the server.tool(...) registrations, in order
  document,             \* the part of the OpenAPI document being compiled
  compiled,             \* what the compile pass made of it
  probe,                \* the latest safeParse: its input and its success
  calls,                \* the dispatches, in order of arrival
  main,                 \* where main() stands, and what it holds
  fetches               \* the calls of fetch so far, in order

vars == <<schema, showWarehouseNative, toolNames, assigned, tools,
          document, compiled, probe, calls, main, fetches>>

registryVars == <<schema, showWarehouseNative, toolNames, assigned, tools>>

compileVars == <<document, compiled, probe>>

\* values of the variables a run does not use
NoDocument == [t |-> "none"]
NotCompiled == [t |-> "pending"]
NoProbe == [t |-> "none"]
NoMain == [pc |-> "none"]

\* ------------------------------------------------------------------- text
Letters ==
  {"a","b","c","d","e","f","g","h","i","j","k","l","m","n","o","p","q","r",
   "s","t","u","v","w","x","y","z",
   "A","B","C","D","E","F","G","H","I","J","K","L","M","N","O","P","Q","R",
   "S","T","U","V","W","X","Y","Z"}

DigitChars == <<"0","1","2","3","4","5","6","7","8","9">>

Digits == {DigitChars[i] : i \in 1..10}

\* the character class [a-zA-Z0-9]
AlNum == Letters \cup Digits

Min(a, b) == IF a <= b THEN a ELSE b

\* `${n}` for a non-negative integer n
RECURSIVE NumToStr(_)
NumToStr(n) ==
  IF n < 10 THEN <<DigitChars[n + 1]>>
  ELSE NumToStr(n \div 10) \o <<DigitChars[(n % 10) + 1]>>

\* s.substring(0, n)
Substring0(s, n) == SubSeq(s, 1, Min(Len(s), n))

\* endpoint.replace(/[^a-zA-Z0-9]/g, "-")
Sanitize(s) == [i \in 1..Len(s) |-> IF s[i] \in AlNum THEN s[i] ELSE "-"]

\* endpoint.replace(/[^a-zA-Z0-9]/g, "-").substring(0, 40)
BaseName(endpoint) == Substring0(Sanitize(endpoint), NameLimit)

\* a suffix counting the registered tools instead of the identifiers handed out
DedupNameByRegistered(base, names) ==
  IF base \in names THEN base \o <<"-">> \o NumToStr(Len(tools)) ELSE base

\* if (toolNames.has(toolName)) toolName = `${toolName}-${toolNames.size}`
DedupName(base, names) ==
  IF base \in names THEN base \o <<"-">> \o NumToStr(Cardinality(names)) ELSE base

SeqRange(s) == {s[i] : i \in 1..Len(s)}

\* the characters of a parameter name
Chars(name) ==
  CASE name = "id" -> <<"i", "d">>
    [] name = "limit" -> <<"l", "i", "m", "i", "t">>
    [] name = "key" -> <<"k", "e", "y">>

\* whether pattern occurs in s at index i
OccursAt(s, pattern, i) ==
  /\ i + Len(pattern) - 1 <= Len(s)
  /\ \A k \in 1..Len(pattern) : s[i + k - 1] = pattern[k]

\* s.includes(pattern)
Includes(s, pattern) == \E i \in 1..(Len(s) + 1) : OccursAt(s, pattern, i)

\* s.indexOf(pattern), counted from 1
IndexOf(s, pattern) ==
  CHOOSE i \in 1..(Len(s) + 1) :
    OccursAt(s, pattern, i) /\ \A j \in 1..(i - 1) : ~OccursAt(s, pattern, j)

\* a replace that drops everything after the replacement
ReplaceAndCut(s, pattern, replacement) ==
  IF ~Includes(s, pattern) THEN s
  ELSE SubSeq(s, 1, IndexOf(s, pattern) - 1) \o replacement

\* s.replace(pattern, replacement) for a string pattern and a replacement
\* without "$": the first occurrence only
Replace(s, pattern, replacement) ==
  IF ~Includes(s, pattern) THEN s
  ELSE LET i == IndexOf(s, pattern)
       IN SubSeq(s, 1, i - 1) \o replacement
          \o SubSeq(s, i + Len(pattern), Len(s))

RECURSIVE Flatten(_)
Flatten(ss) == IF ss = <<>> THEN <<>> ELSE Head(ss) \o Flatten(Tail(ss))

\* the characters encodeURIComponent leaves alone
UriUnreserved == AlNum \cup {"-", "_", ".", "!", "~", "*", "'", "(", ")"}

\* the UTF-8 percent escape of the other characters met here
PercentEscape(c) ==
  CASE c = "/" -> <<"%", "2", "F">>
    [] c = " " -> <<"%", "2", "0">>
    [] c = "{" -> <<"%", "7", "B">>
    [] c = "}" -> <<"%", "7", "D">>
    [] c = "?" -> <<"%", "3", "F">>
    [] c = "=" -> <<"%", "3", "D">>
    [] c = "&" -> <<"%", "2", "6">>
    [] c = "$" -> <<"%", "2", "4">>
    [] c = "%" -> <<"%", "2", "5">>

\* encodeURIComponent(s)
EncodeURIComponent(s) ==
  Flatten([i \in 1..Len(s) |->
             IF s[i] \in UriUnreserved THEN <<s[i]>> ELSE PercentEscape(s[i])])

\* the application/x-www-form-urlencoded serialization of one name or value
FormEncode(s) ==
  Flatten([i \in 1..Len(s) |->
             IF s[i] \in AlNum \cup {"*", "-", ".", "_"} THEN <<s[i]>>
             ELSE IF s[i] = " " THEN <<"+">>
             ELSE PercentEscape(s[i])])


\* ------------------------------------------------------------- JS values
\* A value is [k |-> typeof-like kind, v |-> payload]: the payload of a string,
\* number or boolean is its text, of an array a sequence of values, of an
\* object a sequence of [key, value] entries in insertion order.
Undefined == [k |-> "undefined", v |-> <<>>]
Null == [k |-> "null", v |-> <<>>]
StrVal(text) == [k |-> "string", v |-> text]
NumVal(text) == [k |-> "number", v |-> text]
BoolVal(text) == [k |-> "boolean", v |-> text]
ObjVal(entries) == [k |-> "object", v |-> entries]

\* obj[key] for an object value; undefined when the key is absent
Lookup(entries, key) ==
  IF \E i \in 1..Len(entries) : entries[i].key = key
  THEN entries[CHOOSE i \in 1..Len(entries) : entries[i].key = key].value
  ELSE Undefined

\* ------------------------------------------------------- zod validators
\* A validator is a record tagged by t; a conversion that throws yields
\* [t |-> "throw", error |-> ...] in its place.
ZString == [t |-> "string"]
ZNumber == [t |-> "number"]
ZBoolean == [t |-> "boolean"]
ZAny == [t |-> "any"]
ZEnum(values) == [t |-> "enum", values |-> values]
ZArray(item) == [t |-> "array", item |-> item]
ZObject(shape) == [t |-> "object", shape |-> shape]
\* a union that takes whatever a string validator takes as well
ZUnionOrString(options) ==
  [t |-> "union", options |-> Append(options, [t |-> "string"])]

\* a union that only tries its first option
ZUnionFirstOption(options) ==
  [t |-> "union", options |-> SubSeq(options, 1, Min(1, Len(options)))]

ZUnion(options) == [t |-> "union", options |-> options]
ZIntersection(l, r) == [t |-> "intersection", left |-> l, right |-> r]
ZOptional(inner) == [t |-> "optional", inner |-> inner]
ZNullable(inner) == [t |-> "nullable", inner |-> inner]
Throw(error) == [t |-> "throw", error |-> error]

\* a Record<string, z.ZodType>: entries [name, zod] in insertion order
ZodRecord(entries) == [t |-> "record", entries |-> entries]
IsThrow(z) == z.t = "throw"

\* for a result that is some other record on success
IsThrowValue(r) == "t" \in DOMAIN r /\ r.t = "throw"

\* schema.safeParse(x).success
RECURSIVE Accepts(_, _)
Accepts(z, x) ==
  CASE z.t = "string" -> x.k = "string"
    [] z.t = "number" -> x.k = "number"
    [] z.t = "boolean" -> x.k = "boolean"
    [] z.t = "any" -> TRUE
    [] z.t = "enum" -> x.k = "string" /\ x.v \in z.values
    [] z.t = "array" ->
         x.k = "array" /\ \A i \in 1..Len(x.v) : Accepts(z.item, x.v[i])
    [] z.t = "object" ->
         /\ x.k = "object"
         /\ \A i \in 1..Len(z.shape) :
              Accepts(z.shape[i].zod, Lookup(x.v, z.shape[i].name))
    [] z.t = "union" -> \E i \in 1..Len(z.options) : Accepts(z.options[i], x)
    [] z.t = "intersection" -> Accepts(z.left, x) /\ Accepts(z.right, x)
    [] z.t = "optional" -> x.k = "undefined" \/ Accepts(z.inner, x)
    [] z.t = "nullable" -> x.k = "null" \/ Accepts(z.inner, x)

\* the first exception thrown while mapping over a list
FirstThrow(zs) ==
  zs[CHOOSE i \in 1..Len(zs) :
       IsThrow(zs[i]) /\ \A j \in 1..(i - 1) : ~IsThrow(zs[j])]

AnyThrow(zs) == \E i \in 1..Len(zs) : IsThrow(zs[i])

\* zs.reduce((a, b) => z.intersection(a, b)), for a non-empty list
RECURSIVE ReduceIntersection(_)
ReduceIntersection(zs) ==
  IF Len(zs) = 1 THEN zs[1]
  ELSE ZIntersection(ReduceIntersection(SubSeq(zs, 1, Len(zs) - 1)), zs[Len(zs)])

Has(record, field) == field \in DOMAIN record

\* {}
EmptyObject == [x \in {} |-> x]

\* ------------------------------------------- OpenAPI schema -> validator
\* A schema object is a record holding the keys the document gives it, among
\* ref ("$ref", as its "/"-separated parts after "#/components/"), enum,
\* allOf, oneOf, anyOf, type, items, properties (entries [key, schema] in
\* document order), required (a set of keys), nullable, description.

\* resolveReference: walk the parts from the components object
RECURSIVE WalkParts(_, _, _)
WalkParts(result, parts, ref) ==
  IF parts = <<>> THEN result
  ELSE IF Has(result, Head(parts))
       THEN WalkParts(result[Head(parts)], Tail(parts), ref)
       ELSE Throw([kind |-> "Could not resolve reference", ref |-> ref])

ResolveReference(ref, components) == WalkParts(components, ref, ref)

\* a runtime that answers exhausted recursion with the accept-anything validator
AnyAtStackLimit == [t |-> "any"]

\* the call depth at which the runtime throws RangeError
RangeError == Throw([kind |-> "RangeError"])

RECURSIVE ConvertSchemaObjectToZod(_, _, _)
ConvertSchemaObjectToZod(schemaObject, components, depth) ==
  LET Sub(s) == ConvertSchemaObjectToZod(s, components, depth - 1)
      SubAll(ss) == [i \in 1..Len(ss) |-> Sub(ss[i])]
      Nullable(base) ==
        IF Has(schemaObject, "nullable") /\ schemaObject.nullable
        THEN ZNullable(base) ELSE base
  IN
  IF depth = 0 THEN RangeError
  ELSE IF Has(schemaObject, "ref") THEN
    LET resolved == ResolveReference(schemaObject.ref, components)
    IN IF IsThrowValue(resolved) THEN resolved ELSE Sub(resolved)
  ELSE IF Has(schemaObject, "enum") /\ Len(schemaObject.enum) > 0 THEN
    ZEnum(SeqRange(schemaObject.enum))
  ELSE IF Has(schemaObject, "allOf") THEN
    LET zs == SubAll(schemaObject.allOf)
    IN IF AnyThrow(zs) THEN FirstThrow(zs)
       ELSE IF Len(zs) = 0
            THEN Throw([kind |-> "TypeError: Reduce of empty array"])
            ELSE ReduceIntersection(zs)
  ELSE IF Has(schemaObject, "oneOf") THEN
    LET zs == SubAll(schemaObject.oneOf)
    IN IF AnyThrow(zs) THEN FirstThrow(zs) ELSE ZUnion(zs)
  ELSE IF Has(schemaObject, "anyOf") THEN
    LET zs == SubAll(schemaObject.anyOf)
    IN IF AnyThrow(zs) THEN FirstThrow(zs) ELSE ZUnion(zs)
  ELSE IF Has(schemaObject, "type") THEN
    LET base ==
      CASE schemaObject.type = "string" -> ZString
        [] schemaObject.type \in {"number", "integer"} -> ZNumber
        [] schemaObject.type = "boolean" -> ZBoolean
        [] schemaObject.type = "array" ->
             IF Has(schemaObject, "items")
             THEN LET item == Sub(schemaObject.items)
                  IN IF IsThrow(item) THEN item ELSE ZArray(item)
             ELSE Throw([kind |-> "TypeError: in operator on undefined"])
        [] schemaObject.type = "object" ->
             LET props == IF Has(schemaObject, "properties")
                          THEN schemaObject.properties ELSE <<>>
                 required == IF Has(schemaObject, "required")
                             THEN schemaObject.required ELSE {}
                 zs == [i \in 1..Len(props) |-> Sub(props[i].schema)]
             IN IF AnyThrow(zs) THEN FirstThrow(zs)
                ELSE ZObject([i \in 1..Len(props) |->
                       [name |-> props[i].key,
                        zod |-> IF props[i].key \in required
                                THEN zs[i] ELSE ZOptional(zs[i])]])
        [] OTHER -> ZAny
    IN IF IsThrow(base) THEN base ELSE Nullable(base)
  ELSE ZAny

\* HTTP_METHODS, the order in which specToZod inserts a path's methods
HTTP_METHODS == <<"get", "post", "put", "delete", "patch", "options", "head", "trace">>

\* ------------------------------------------------ parameters -> validators
\* A parameter declaration is a record holding name, in, and possibly
\* required, schema, description; a reference to one holds ref instead.

\* the marker of a parameter without schema (openApiParameterToZod's undefined)
NoZod == [t |-> "undefined"]

\* Object.fromEntries: a repeated name keeps its first position and its last value
RECURSIVE FromEntries(_)
FromEntries(es) ==
  IF es = <<>> THEN <<>>
  ELSE LET front == FromEntries(SubSeq(es, 1, Len(es) - 1))
           e == es[Len(es)]
       IN IF \E i \in 1..Len(front) : front[i].name = e.name
          THEN [i \in 1..Len(front) |->
                  IF front[i].name = e.name THEN e ELSE front[i]]
          ELSE Append(front, e)

\* OpenApiToZod.ensureParameterObject
EnsureParameterObject(parameter) == ~Has(parameter, "ref")

\* OpenApiToZod.openApiParameterToZod; the schema is converted without components
OpenApiParameterToZod(parameter) ==
  IF ~Has(parameter, "schema") THEN NoZod
  ELSE LET zodSchema ==
             ConvertSchemaObjectToZod(parameter.schema, EmptyObject, StackLimit)
       IN IF IsThrow(zodSchema) THEN zodSchema
          ELSE IF ~(Has(parameter, "required") /\ parameter.required)
               THEN ZOptional(zodSchema)
               ELSE zodSchema

\* OpenApiToZod.openApiParameterArrayToZod
OpenApiParameterArrayToZod(parameters) ==
  LET objs == SelectSeq(parameters, EnsureParameterObject)
      zs == [i \in 1..Len(objs) |-> OpenApiParameterToZod(objs[i])]
      entries == [i \in 1..Len(objs) |-> [name |-> objs[i].name, zod |-> zs[i]]]
  IN IF AnyThrow(zs) THEN FirstThrow(zs)
     ELSE ZodRecord(FromEntries(SelectSeq(entries, LAMBDA e : e.zod # NoZod)))

\* OpenApiToZod.extractPathParameters
ExtractPathParameters(parameters) ==
  LET inPath == SelectSeq(parameters, LAMBDA p : Has(p, "in") /\ p.in = "path")
  IN [i \in 1..Len(inPath) |-> inPath[i].name]

\* a conversion that leaves the required flag of the body aside
ConvertRequestBodyAsRequired(requestBody, components) ==
  IF ~Has(requestBody, "content") THEN NoZod
  ELSE IF ~Has(requestBody.content, "application/json") THEN NoZod
  ELSE IF ~Has(requestBody.content["application/json"], "schema") THEN NoZod
  ELSE ZodRecord(<<[name |-> "application/json",
                    zod |-> ConvertSchemaObjectToZod(
                              requestBody.content["application/json"].schema,
                              components, StackLimit)]>>)

\* OpenApiToZod.convertRequestBodyToZod: NoZod for undefined, else the record
\* with the one entry keyed "application/json"
ConvertRequestBodyToZod(requestBody, components) ==
  LET actual == IF Has(requestBody, "ref")
                THEN ResolveReference(requestBody.ref, components)
                ELSE requestBody
      content == IF Has(actual, "content") THEN actual.content ELSE EmptyObject
  IN IF IsThrowValue(actual) THEN actual
     ELSE IF ~Has(content, "application/json") THEN NoZod
     ELSE IF ~Has(content["application/json"], "schema") THEN NoZod
     ELSE LET zodSchema == ConvertSchemaObjectToZod(
                             content["application/json"].schema, components, StackLimit)
          IN IF IsThrow(zodSchema) THEN zodSchema
             ELSE ZodRecord(<<[name |-> "application/json",
                                zod |-> IF Has(actual, "required") /\ actual.required
                                        THEN zodSchema ELSE ZOptional(zodSchema)]>>)

INCLUDE_TAG == <<"MCP">>
WHN_TAG_SUBSTR == "(Warehouse Native)"

\* tag.includes(WHN_TAG_SUBSTR), a tag being a sequence of words
TagIncludes(tag, word) == \E i \in 1..Len(tag) : tag[i] = word

\* a filter that asks for tags, whichever they are
MethodsWithTags(pathItem) ==
  SelectSeq(HTTP_METHODS, LAMBDA m : Has(pathItem, m) /\ Has(pathItem[m], "tags"))

\* the operations of a path item that specToZod compiles, in HTTP_METHODS order
IncludedMethods(pathItem) ==
  SelectSeq(HTTP_METHODS,
            LAMBDA m : /\ Has(pathItem, m)
                       /\ Has(pathItem[m], "tags")
                       /\ INCLUDE_TAG \in SeqRange(pathItem[m].tags))

\* schema[path][method] = {...} of OpenApiToZod.specToZod
CompileOperation(method, operation, components) ==
  LET params == IF Has(operation, "parameters") THEN operation.parameters ELSE <<>>
      parameters == OpenApiParameterArrayToZod(params)
      requestBody == IF Has(operation, "requestBody")
                     THEN ConvertRequestBodyToZod(operation.requestBody, components)
                     ELSE NoZod
  IN IF IsThrowValue(parameters) THEN parameters
     ELSE IF IsThrowValue(requestBody) THEN requestBody
     ELSE [verb |-> method,
           parameters |-> parameters,
           pathParameters |-> ExtractPathParameters(params),
           isWHN |-> \E i \in 1..Len(operation.tags) :
                       TagIncludes(operation.tags[i], WHN_TAG_SUBSTR),
           requestBody |-> requestBody]

\* the outcome of a loop whose iterations yield ops: the first exception, or
\* all of them
FirstThrowOrAll(ops) ==
  IF \E i \in 1..Len(ops) : IsThrowValue(ops[i])
  THEN ops[CHOOSE i \in 1..Len(ops) :
             IsThrowValue(ops[i]) /\ \A j \in 1..(i - 1) : ~IsThrowValue(ops[j])]
  ELSE ops

\* the inner loop of OpenApiToZod.specToZod for one path: the compiled
\* operations in HTTP_METHODS order, or the exception one of them throws
SpecToZodPath(pathItem, components) ==
  FirstThrowOrAll([i \in 1..Len(IncludedMethods(pathItem)) |->
                     CompileOperation(IncludedMethods(pathItem)[i],
                                      pathItem[IncludedMethods(pathItem)[i]],
                                      components)])

\* whether an operation of the path throws while it is compiled
PathThrows(pathItem, components) ==
  \E m \in SeqRange(IncludedMethods(pathItem)) :
    IsThrowValue(CompileOperation(m, pathItem[m], components))

\* a compile pass that has no answer for a document without paths
SpecToZodOfSomePath(openApiSpec) ==
  IF openApiSpec.paths = <<>>
  THEN Throw([kind |-> "TypeError"])
  ELSE [t |-> "schema",
        entries |-> [i \in 1..Len(openApiSpec.paths) |->
                       [endpoint |-> openApiSpec.paths[i].path, methods |-> <<>>]]]

\* this.openApiSpec.components ?? {}
ComponentsOf(openApiSpec) ==
  IF Has(openApiSpec, "components") THEN openApiSpec.components ELSE EmptyObject

\* the inner loop of specToZod for the i-th path of the document
PathResult(openApiSpec, i) ==
  SpecToZodPath(openApiSpec.paths[i].item, ComponentsOf(openApiSpec))

\* the paths of the document with an operation that throws
ThrowingPaths(openApiSpec) ==
  {i \in 1..Len(openApiSpec.paths) :
     PathThrows(openApiSpec.paths[i].item, ComponentsOf(openApiSpec))}

\* what specToZod returns for the outcomes of its paths: the exception of the
\* first path that throws, or a key for each path with a compiled operation
SchemaOrThrow(paths, results, throwing) ==
  IF throwing # {}
  THEN results[CHOOSE i \in throwing : \A j \in throwing : i <= j]
  ELSE [t |-> "schema",
        entries |-> SelectSeq([i \in 1..Len(paths) |->
                                 [endpoint |-> paths[i].path, methods |-> results[i]]],
                              LAMBDA e : Len(e.methods) > 0)]

\* OpenApiToZod.specToZod, the paths as [path, item] in document order
SpecToZod(openApiSpec) ==
  SchemaOrThrow(openApiSpec.paths,
                [i \in 1..Len(openApiSpec.paths) |-> PathResult(openApiSpec, i)],
                ThrowingPaths(openApiSpec))

\* --------------------------------------- mergeParameters (one tool per path)
\* the members every object literal inherits from Object.prototype
ObjectPrototypeKeys ==
  {"constructor", "toString", "toLocaleString", "valueOf", "hasOwnProperty",
   "isPrototypeOf", "propertyIsEnumerable"}

\* an inherited member: truthy, and not a validator
Inherited == [t |-> "inherited"]

\* allParameters[paramName] on an object created as {}
GetProperty(entries, name) ==
  IF \E i \in 1..Len(entries) : entries[i].name = name
  THEN entries[CHOOSE i \in 1..Len(entries) : entries[i].name = name].zod
  ELSE IF name \in ObjectPrototypeKeys THEN Inherited
  ELSE NoZod

\* allParameters[paramName] = zod
SetProperty(entries, name, zod) ==
  IF \E i \in 1..Len(entries) : entries[i].name = name
  THEN [i \in 1..Len(entries) |->
          IF entries[i].name = name THEN [name |-> name, zod |-> zod] ELSE entries[i]]
  ELSE Append(entries, [name |-> name, zod |-> zod])

\* a merge that lets the later verb's validator replace the earlier one
MergeEntryLastWins(allParameters, entry) ==
  SetProperty(allParameters, entry.name, entry.zod)

\* the body of  for (const [paramName, paramSchema] of Object.entries(methodParams))
MergeEntry(allParameters, entry) ==
  IF GetProperty(allParameters, entry.name) # NoZod
  THEN SetProperty(allParameters, entry.name,
                   ZUnion(<<GetProperty(allParameters, entry.name), entry.zod>>))
  ELSE SetProperty(allParameters, entry.name, entry.zod)

RECURSIVE MergeEntries(_, _)
MergeEntries(allParameters, methodParams) ==
  IF methodParams = <<>> THEN allParameters
  ELSE MergeEntries(MergeEntry(allParameters, Head(methodParams)), Tail(methodParams))

\* mergeParameters(operations).parameters, the operations in the order of
\* Object.entries(operations); a conversion that throws ends the merge
RECURSIVE MergeParameters(_, _)
MergeParameters(allParameters, operations) ==
  IF operations = <<>> THEN ZodRecord(allParameters)
  ELSE LET methodParams == OpenApiParameterArrayToZod(Head(operations).parameters)
       IN IF IsThrow(methodParams) THEN methodParams
          ELSE MergeParameters(MergeEntries(allParameters, methodParams.entries),
                               Tail(operations))

\* whether parsing with the validator reaches only validators
RECURSIVE WellFormed(_)
WellFormed(z) ==
  CASE z.t = "inherited" -> FALSE
    [] z.t = "union" -> \A i \in 1..Len(z.options) : WellFormed(z.options[i])
    [] z.t \in {"optional", "nullable"} -> WellFormed(z.inner)
    [] OTHER -> TRUE

\* --------------------------------------------- buildTools: the naming loop
\* Object.entries(methods).filter(([_, method]) => method.isWHN === showWarehouseNative)
\* a filter that keeps the operations of both deployments
MethodsOfBothModes(methods, whn) == methods

MethodsToUse(methods, whn) == SelectSeq(methods, LAMBDA m : m.isWHN = whn)

\* Object.keys(methodsToUse)
MethodNames(methodsToUse) == [i \in 1..Len(methodsToUse) |-> methodsToUse[i].verb]

\* the identifier of one iteration: sanitize, truncate, deduplicate
ToolName(endpoint, names) == DedupName(BaseName(endpoint), names)

\* what server.tool(toolName, description, enhancedParameters, handler) keeps
\* of one registration
Tool(toolName, endpoint, methodsToUse) ==
  [toolName |-> toolName,
   endpoint |-> endpoint,
   methodNames |-> MethodNames(methodsToUse),
   methodsToUse |-> methodsToUse]

\* an iteration that hands out an identifier only to the paths it registers
RegisterToolNamingRegistered(entry) ==
  /\ Len(schema) < MaxPaths
  /\ \A i \in 1..Len(schema) : schema[i].endpoint # entry.endpoint
  /\ LET toolName == ToolName(entry.endpoint, toolNames)
         methodsToUse == MethodsToUse(entry.methods, showWarehouseNative)
     IN /\ schema' = Append(schema, entry)
        /\ toolNames' = IF Len(methodsToUse) = 0 THEN toolNames
                        ELSE toolNames \cup {toolName}
        /\ assigned' = Append(assigned, toolName)
        /\ tools' =
             IF Len(methodsToUse) = 0
             THEN tools
             ELSE Append(tools, Tool(toolName, entry.endpoint, methodsToUse))
  /\ UNCHANGED <<showWarehouseNative, compileVars, calls, main, fetches>>

\* one iteration of  for (const [endpoint, methods] of Object.entries(schema))
RegisterTool(entry) ==
  /\ Len(schema) < MaxPaths
  /\ \A i \in 1..Len(schema) : schema[i].endpoint # entry.endpoint
  /\ LET toolName == ToolName(entry.endpoint, toolNames)
         methodsToUse == MethodsToUse(entry.methods, showWarehouseNative)
     IN /\ schema' = Append(schema, entry)
        /\ toolNames' = toolNames \cup {toolName}
        /\ assigned' = Append(assigned, toolName)
        /\ tools' =
             IF Len(methodsToUse) = 0
             THEN tools
             ELSE Append(tools, Tool(toolName, entry.endpoint, methodsToUse))
  /\ UNCHANGED <<showWarehouseNative, compileVars, calls, main, fetches>>

\* ------------------------------------------------------ the tool handler
DEFAULT_STATSIG_API_URL_BASE == <<"https://api.statsig.com">>

\* getUrlBase() with STATSIG_HOST unset
GetUrlBase == DEFAULT_STATSIG_API_URL_BASE

\* `${method}_params`
ParamsKey(method) ==
  CASE method = "get" -> "get_params"
    [] method = "post" -> "post_params"
    [] method = "put" -> "put_params"
    [] method = "delete" -> "delete_params"
    [] method = "patch" -> "patch_params"
    [] method = "options" -> "options_params"
    [] method = "head" -> "head_params"
    [] method = "trace" -> "trace_params"

\* enhancedParameters: the verb selector and one optional object per verb
EnhancedParameters(methodsToUse) ==
  <<[name |-> "method", zod |-> ZEnum(SeqRange(MethodNames(methodsToUse)))]>>
  \o [i \in 1..Len(methodsToUse) |->
        [name |-> ParamsKey(methodsToUse[i].verb),
         zod |-> ZOptional(ZObject(methodsToUse[i].parameters.entries))]]

\* the data safeParse hands on for an accepted input: an object keeps the keys
\* of its shape that the input has, in the order of the shape
RECURSIVE Output(_, _)
Output(z, x) ==
  CASE z.t = "object" ->
         LET present == SelectSeq(z.shape, LAMBDA e : Lookup(x.v, e.name) # Undefined)
         IN ObjVal([i \in 1..Len(present) |->
                      [key |-> present[i].name,
                       value |-> Output(present[i].zod, Lookup(x.v, present[i].name))]])
    [] z.t \in {"optional", "nullable"} ->
         IF x.k \in {"undefined", "null"} THEN x ELSE Output(z.inner, x)
    [] OTHER -> x

\* String(paramValue) of a string, number or boolean
StringOf(value) == value.v

\* a set that writes the pair twice
SearchParamsSetTwice(searchParams, name, value) ==
  searchParams \o <<[name |-> name, value |-> value], [name |-> name, value |-> value]>>

\* searchParams.set(name, value)
SearchParamsSet(searchParams, name, value) ==
  IF \E i \in 1..Len(searchParams) : searchParams[i].name = name
  THEN LET first == CHOOSE i \in 1..Len(searchParams) :
                      /\ searchParams[i].name = name
                      /\ \A j \in 1..(i - 1) : searchParams[j].name # name
           kept == {i \in 1..Len(searchParams) :
                      i = first \/ searchParams[i].name # name}
           Nth(k) == CHOOSE i \in kept : Cardinality({j \in kept : j < i}) = k - 1
       IN [k \in 1..Cardinality(kept) |->
             IF Nth(k) = first THEN [name |-> name, value |-> value]
             ELSE searchParams[Nth(k)]]
  ELSE Append(searchParams, [name |-> name, value |-> value])

\* searchParams.toString()
RECURSIVE SearchParamsToString(_)
SearchParamsToString(searchParams) ==
  IF searchParams = <<>> THEN <<>>
  ELSE LET pair == FormEncode(Chars(Head(searchParams).name)) \o <<"=">>
                   \o FormEncode(Head(searchParams).value)
       IN IF Len(searchParams) = 1 THEN pair
          ELSE pair \o <<"&">> \o SearchParamsToString(Tail(searchParams))

\* the for loop over Object.entries(methodParams)
RECURSIVE Interpolate(_, _, _, _)
Interpolate(interpolatedPath, searchParams, methodParams, pathParameters) ==
  IF methodParams = <<>>
  THEN [interpolatedPath |-> interpolatedPath, searchParams |-> searchParams]
  ELSE LET paramName == Head(methodParams).key
           paramValue == Head(methodParams).value
       IN IF paramName \in SeqRange(pathParameters)
          THEN Interpolate(Replace(interpolatedPath,
                                   <<"{">> \o Chars(paramName) \o <<"}">>,
                                   EncodeURIComponent(StringOf(paramValue))),
                           searchParams, Tail(methodParams), pathParameters)
          ELSE IF paramValue.k \notin {"null", "undefined"}
          THEN Interpolate(interpolatedPath,
                           SearchParamsSet(searchParams, paramName, StringOf(paramValue)),
                           Tail(methodParams), pathParameters)
          ELSE Interpolate(interpolatedPath, searchParams,
                           Tail(methodParams), pathParameters)

\* a URL that always carries the "?"
QuerySuffixAlways(queryString) == <<"?">> \o queryString

\* queryString ? `?${queryString}` : ""
QuerySuffix(queryString) ==
  IF queryString # <<>> THEN <<"?">> \o queryString ELSE <<>>

\* the handler up to its fetch(url, {method, headers}): the request it issues
\* for the validated params
Request(tool, params) ==
  LET method == Lookup(params, "method")
      methodToUse == IF method # Undefined THEN method.v ELSE tool.methodNames[1]
      given == Lookup(params, ParamsKey(methodToUse))
      methodParams == IF given = Undefined THEN <<>> ELSE given.v
      methodConfig ==
        tool.methodsToUse[CHOOSE i \in 1..Len(tool.methodsToUse) :
                            tool.methodsToUse[i].verb = methodToUse]
      loop == Interpolate(tool.endpoint, <<>>, methodParams, methodConfig.pathParameters)
      queryString == SearchParamsToString(loop.searchParams)
  IN [method |-> methodToUse,
      url |-> GetUrlBase \o loop.interpolatedPath \o QuerySuffix(queryString)]

\* response.ok
IsOk(status) == status \in 200..299

\* the body without its leading and trailing spaces
RECURSIVE Trim(_)
Trim(text) ==
  IF text = <<>> THEN text
  ELSE IF Head(text) = " " THEN Trim(Tail(text))
  ELSE IF text[Len(text)] = " " THEN Trim(SubSeq(text, 1, Len(text) - 1))
  ELSE text

SyntaxError == [k |-> "throw", v |-> <<"Unexpected token">>]

\* response.json() for the bodies met here: a number, {}, or no JSON at all
JsonParse(text) ==
  LET t == Trim(text)
  IN IF /\ t # <<>>
        /\ \A i \in 1..Len(t) : t[i] \in Digits
        /\ (Len(t) = 1 \/ t[1] # "0")
     THEN NumVal(t)
     ELSE IF t = <<"{", "}">> THEN ObjVal(<<>>)
     ELSE SyntaxError

\* JSON.stringify(responseData, null, 2) of a number or of {}
JsonStringify(value) == IF value.k = "number" THEN value.v ELSE <<"{", "}">>

Returned(text) == [isError |-> FALSE, text |-> text]

\* what the caller gets when the handler throws
Thrown(message) == [isError |-> TRUE, text |-> message]

\* an error text that leaves the body out
ApiErrorWithoutBody(status, errorText) ==
  <<"API Error (">> \o NumToStr(status) \o <<"): ">>

\* `API Error (${response.status}): ${errorText}`
ApiError(status, errorText) ==
  <<"API Error (">> \o NumToStr(status) \o <<"): ">> \o errorText

\* `Error calling the API: ${error.message}`
Rethrown(message) == Thrown(<<"Error calling the API: ">> \o message)

\* a handler that returns every success body as text
HandleResponseAsText(response) ==
  IF ~IsOk(response.status)
  THEN Rethrown(ApiError(response.status, response.body))
  ELSE Returned(response.body)

\* the handler from the resolution of fetch on
HandleResponse(response) ==
  IF ~IsOk(response.status)
  THEN Rethrown(ApiError(response.status, response.body))
  ELSE IF /\ response.contentType # <<>>
          /\ Includes(response.contentType, <<"application/json">>)
  THEN LET responseData == JsonParse(response.body)
       IN IF responseData = SyntaxError THEN Rethrown(SyntaxError.v)
          ELSE Returned(JsonStringify(responseData))
  ELSE Returned(response.body)

\* ------------------------------------------- documents of the naming runs
TailChars == {"/", "-"}

Tails == UNION {[1..k -> TailChars] : k \in 0..MaxTail}

\* "/", then separators, then possibly a digit: "/-", "//", "/--2", ...
ShortPaths == {<<"/">> \o t \o d : t \in Tails, d \in {<<>>, <<"2">>}}

\* a path of NameLimit characters; one more character is cut by substring
LongStem == [i \in 1..NameLimit |-> IF i = 1 THEN "/" ELSE "a"]

LongPaths == {LongStem \o <<c>> : c \in TailChars}

NamingPaths == ShortPaths \cup LongPaths

\* a path item with one GET operation carrying the inclusion tag
PlainGet == [get |-> [tags |-> <<INCLUDE_TAG>>]]

NamingEntries ==
  {[endpoint |-> p, methods |-> SpecToZodPath(PlainGet, EmptyObject)] : p \in NamingPaths}

InitTools ==
  /\ schema = <<>>
  /\ showWarehouseNative \in BOOLEAN
  /\ toolNames = {}
  /\ assigned = <<>>
  /\ tools = <<>>
  /\ document = NoDocument
  /\ compiled = NotCompiled
  /\ probe = NoProbe
  /\ calls = <<>>
  /\ main = NoMain
  /\ fetches = <<>>

NextTools == \E entry \in NamingEntries : RegisterTool(entry)

SpecTools == InitTools /\ [][NextTools]_vars

\* ------------------------------------------------- claims on tool naming
Endpoints == [i \in 1..Len(schema) |-> schema[i].endpoint]

\* C1: after buildTools has registered tools for any ordered list of paths,
\* no two registered tools carry the same identifier.
C1_NoTwoToolsShareIdentifier ==
  \A i, j \in 1..Len(tools) :
    i # j => tools[i].toolName # tools[j].toolName

\* The identifiers as a function of the ordered paths alone: each path's
\* identifier is computed from the paths before it and the path itself.
RECURSIVE IdsOfPaths(_)
IdsOfPaths(ps) ==
  IF ps = <<>> THEN <<>>
  ELSE LET before == IdsOfPaths(SubSeq(ps, 1, Len(ps) - 1))
           taken == SeqRange(before)
           last == ps[Len(ps)]
           clean == [i \in 1..Len(last) |-> IF last[i] \in AlNum THEN last[i] ELSE "-"]
           base == SubSeq(clean, 1, Min(Len(clean), NameLimit))
       IN Append(before,
                 IF base \in taken
                 THEN base \o <<"-">> \o NumToStr(Cardinality(taken))
                 ELSE base)

\* C2: identifier assignment is deterministic: the identifier of every path is
\* a function only of the ordered sequence of paths up to and including it
\* (not of the deployment mode, nor of which paths were registered as tools),
\* so two runs over the same document assign the same identifiers.
C2_IdentifiersDependOnlyOnPathOrder ==
  /\ Len(assigned) = Len(schema)
  /\ assigned = IdsOfPaths(Endpoints)
  /\ \A k \in 1..Len(assigned) :
       assigned[k] = IdsOfPaths(SubSeq(Endpoints, 1, k))[k]

\* C2 witness: a run in mode showWarehouseNative that registered no tool for the
\* paths it named, with the third path named by a collision suffix.
C2_Witness ==
  /\ showWarehouseNative
  /\ Len(assigned) = 3
  /\ Len(tools) = 0
  /\ assigned[3] # BaseName(schema[3].endpoint)
  /\ assigned = IdsOfPaths(Endpoints)

\* ------------------------------------------------ runs of the union schemas
PrimitiveTypes == {"string", "integer", "number", "boolean"}

MemberSchemas == {[type |-> ty] : ty \in PrimitiveTypes} \cup {[enum |-> <<<<"x">>>>]}

MemberLists == UNION {[1..k -> MemberSchemas] : k \in 0..MaxMembers}

UnionSchemas ==
  {[oneOf |-> ms] : ms \in MemberLists} \cup {[anyOf |-> ms] : ms \in MemberLists}

ProbeValues ==
  {StrVal(<<"x">>), StrVal(<<"y">>), NumVal(<<"7">>), BoolVal(<<"true">>), Null}

InitUnion ==
  /\ document \in UnionSchemas
  /\ compiled = NotCompiled
  /\ probe = NoProbe
  /\ schema = <<>>
  /\ showWarehouseNative = FALSE
  /\ toolNames = {}
  /\ assigned = <<>>
  /\ tools = <<>>
  /\ calls = <<>>
  /\ main = NoMain
  /\ fetches = <<>>

\* convertSchemaObjectToZod(schemaObject) on the schema of the run
ConvertSchema ==
  /\ compiled = NotCompiled
  /\ compiled' = ConvertSchemaObjectToZod(document, EmptyObject, StackLimit)
  /\ UNCHANGED <<registryVars, document, probe, calls, main, fetches>>

\* compiled.safeParse(value)
SafeParse(value) ==
  /\ compiled # NotCompiled
  /\ ~IsThrow(compiled)
  /\ probe' = [input |-> value, success |-> Accepts(compiled, value)]
  /\ UNCHANGED <<registryVars, document, compiled, calls, main, fetches>>

NextUnion == ConvertSchema \/ \E value \in ProbeValues : SafeParse(value)

SpecUnion == InitUnion /\ [][NextUnion]_vars

\* ------------------------------------------------ claims on union schemas
\* what the OpenAPI member schema says of a value, read off the schema itself
MemberAdmits(member, value) ==
  IF Has(member, "enum") THEN value.k = "string" /\ value.v \in SeqRange(member.enum)
  ELSE CASE member.type = "string" -> value.k = "string"
         [] member.type \in {"integer", "number"} -> value.k = "number"
         [] member.type = "boolean" -> value.k = "boolean"

Members(schemaObject) ==
  IF Has(schemaObject, "oneOf") THEN schemaObject.oneOf ELSE schemaObject.anyOf

StringOrInteger == [oneOf |-> <<[type |-> "string"], [type |-> "integer"]>>]

\* C9: the validator compiled from a schema whose alternatives are given by
\* oneOf or by anyOf accepts a value iff at least one member's validator
\* accepts it; oneOf: [string, integer] accepts "x" and 7 and rejects true.
C9_UnionAcceptsIffSomeMemberAccepts ==
  probe # NoProbe =>
    /\ probe.success <=>
         \E i \in 1..Len(Members(document)) :
           MemberAdmits(Members(document)[i], probe.input)
    /\ document = StringOrInteger =>
         /\ probe.input = StrVal(<<"x">>) => probe.success
         /\ probe.input = NumVal(<<"7">>) => probe.success
         /\ probe.input = BoolVal(<<"true">>) => ~probe.success

\* C9 witness: oneOf: [string, integer] was compiled and has accepted 7 through
\* its second member
C9_Witness ==
  /\ document = StringOrInteger
  /\ compiled = ZUnion(<<ZString, ZNumber>>)
  /\ probe = [input |-> NumVal(<<"7">>), success |-> TRUE]

\* --------------------------------------------- runs of the parameter lists
\* declarations with primitive schemas; a name may be declared once per
\* location, and a path parameter is required
ParameterDeclarations ==
  {[name |-> n, in |-> "query", required |-> r, schema |-> [type |-> ty]] :
     n \in {"id", "limit"}, r \in BOOLEAN, ty \in {"string", "integer", "boolean"}}
  \cup
  {[name |-> "id", in |-> "path", required |-> TRUE, schema |-> [type |-> ty]] :
     ty \in {"string", "integer", "boolean"}}

ParameterLists ==
  {ps \in UNION {[1..k -> ParameterDeclarations] : k \in 1..MaxParams} :
     \A i, j \in 1..Len(ps) :
       (ps[i].name = ps[j].name /\ ps[i].in = ps[j].in) => i = j}

BagValues == {StrVal(<<"x">>), NumVal(<<"7">>), BoolVal(<<"true">>)}

\* the argument objects over the names id and limit
Bags ==
  {ObjVal(<<>>)}
  \cup {ObjVal(<<[key |-> n, value |-> v]>>) : n \in {"id", "limit"}, v \in BagValues}
  \cup {ObjVal(<<[key |-> "id", value |-> v], [key |-> "limit", value |-> w]>>) :
          v \in BagValues, w \in BagValues}

InitParameters ==
  /\ document \in ParameterLists
  /\ compiled = NotCompiled
  /\ probe = NoProbe
  /\ schema = <<>>
  /\ showWarehouseNative = FALSE
  /\ toolNames = {}
  /\ assigned = <<>>
  /\ tools = <<>>
  /\ calls = <<>>
  /\ main = NoMain
  /\ fetches = <<>>

\* z.object(methodData.parameters) over openApiParameterArrayToZod(operation.parameters)
CompileParameters ==
  /\ compiled = NotCompiled
  /\ LET parameters == OpenApiParameterArrayToZod(document)
     IN compiled' = IF IsThrow(parameters) THEN parameters
                    ELSE ZObject(parameters.entries)
  /\ UNCHANGED <<registryVars, document, probe, calls, main, fetches>>

\* the validation of one argument bag
ValidateBag(bag) ==
  /\ compiled # NotCompiled
  /\ ~IsThrow(compiled)
  /\ probe' = [input |-> bag, success |-> Accepts(compiled, bag)]
  /\ UNCHANGED <<registryVars, document, compiled, calls, main, fetches>>

NextParameters == CompileParameters \/ \E bag \in Bags : ValidateBag(bag)

SpecParameters == InitParameters /\ [][NextParameters]_vars

\* ---------------------------------------------- claims on parameter lists
\* the kind of value a primitive type names
KindOf(type) ==
  CASE type = "string" -> "string"
    [] type \in {"integer", "number"} -> "number"
    [] type = "boolean" -> "boolean"

Supplied(bag, name) == Lookup(bag.v, name) # Undefined

OfDeclaredKind(bag, declaration) ==
  Lookup(bag.v, declaration.name).k = KindOf(declaration.schema.type)

\* C10: for every list of parameter declarations with primitive schemas, the
\* compiled validators accept a bag in which every required parameter is
\* present and every supplied value is of its declared kind (whether or not
\* the non-required ones are present), reject a bag that omits a required
\* parameter, and reject a bag that supplies a value of another kind.
C10_BagsValidatedAgainstEveryDeclaration ==
  probe # NoProbe =>
    LET ds == document
        bag == probe.input
    IN /\ (\A i \in 1..Len(ds) :
             /\ ds[i].required => Supplied(bag, ds[i].name)
             /\ Supplied(bag, ds[i].name) => OfDeclaredKind(bag, ds[i]))
          => probe.success
       /\ (\E i \in 1..Len(ds) : ds[i].required /\ ~Supplied(bag, ds[i].name))
          => ~probe.success
       /\ (\E i \in 1..Len(ds) :
             Supplied(bag, ds[i].name) /\ ~OfDeclaredKind(bag, ds[i]))
          => ~probe.success

\* the same, for lists that declare every name once
C10_DistinctNamesValidated ==
  (\A i, j \in 1..Len(document) : document[i].name = document[j].name => i = j)
  => C10_BagsValidatedAgainstEveryDeclaration

\* ------------------------------------------------ runs of mergeParameters
MergeNames == {"limit", "constructor"}

MergeDeclarations ==
  {[name |-> n, in |-> "query", required |-> r, schema |-> [type |-> ty]] :
     n \in MergeNames, r \in BOOLEAN, ty \in {"number", "string", "boolean"}}

\* the parameter lists of one operation: none, or one declaration
MergeLists == {<<>>} \cup {<<d>> : d \in MergeDeclarations}

\* operationsByMethod of a path with a GET and a POST operation, in the order
\* of the methods array
MergeOperations ==
  {<<[method |-> "get", parameters |-> g], [method |-> "post", parameters |-> p]>> :
     g \in MergeLists, p \in MergeLists}

InitMerge ==
  /\ document \in MergeOperations
  /\ compiled = NotCompiled
  /\ probe = NoProbe
  /\ schema = <<>>
  /\ showWarehouseNative = FALSE
  /\ toolNames = {}
  /\ assigned = <<>>
  /\ tools = <<>>
  /\ calls = <<>>
  /\ main = NoMain
  /\ fetches = <<>>

\* const { parameters } = mergeParameters(operationsByMethod)
Merge ==
  /\ compiled = NotCompiled
  /\ compiled' = MergeParameters(<<>>, document)
  /\ UNCHANGED <<registryVars, document, probe, calls, main, fetches>>

\* the merged validator of one name parses one value; a parse that reaches a
\* member that is no validator throws, and nothing is accepted
ValidateMerged(name, value) ==
  /\ compiled # NotCompiled
  /\ ~IsThrow(compiled)
  /\ \E i \in 1..Len(compiled.entries) : compiled.entries[i].name = name
  /\ LET zod == GetProperty(compiled.entries, name)
     IN probe' = [name |-> name, input |-> value,
                  success |-> WellFormed(zod) /\ Accepts(zod, value)]
  /\ UNCHANGED <<registryVars, document, compiled, calls, main, fetches>>

MergeValues == {StrVal(<<"x">>), NumVal(<<"7">>), BoolVal(<<"true">>), Undefined}

NextMerge ==
  Merge \/ \E name \in MergeNames, value \in MergeValues : ValidateMerged(name, value)

SpecMerge == InitMerge /\ [][NextMerge]_vars

\* ---------------------------------------------- claims on mergeParameters
\* what one verb's declaration says of a value
DeclarationAdmits(declaration, value) ==
  \/ ~declaration.required /\ value = Undefined
  \/ value.k = KindOf(declaration.schema.type)

\* the verbs of the path that declare the name
Declaring(name) ==
  {i \in 1..Len(document) :
     \E k \in 1..Len(document[i].parameters) : document[i].parameters[k].name = name}

\* C8: when several verbs of one path declare a parameter of the same name, the
\* merged validator for that name accepts every value that at least one verb's
\* validator accepts and rejects a value that no verb's validator accepts.
C8_MergedAcceptsWhatSomeVerbAccepts ==
  (probe # NoProbe /\ Cardinality(Declaring(probe.name)) > 1) =>
    (probe.success <=>
       \E i \in Declaring(probe.name) :
         DeclarationAdmits(document[i].parameters[1], probe.input))

\* the same, for names that Object.prototype does not define
C8_OrdinaryNamesMerged ==
  (probe # NoProbe /\ probe.name \notin ObjectPrototypeKeys)
  => C8_MergedAcceptsWhatSomeVerbAccepts

\* ------------------------------------------------------- runs of dispatch
IdInPath(type) ==
  [name |-> "id", in |-> "path", required |-> TRUE, schema |-> [type |-> type]]

LimitInQuery ==
  [name |-> "limit", in |-> "query", required |-> FALSE, schema |-> [type |-> "integer"]]

KeyInQuery ==
  [name |-> "key", in |-> "query", required |-> FALSE,
   schema |-> [type |-> "string", nullable |-> TRUE]]

\* { required: true, content: { "application/json": { schema: {n: string} } } }
NameBody ==
  [required |-> TRUE,
   content |-> [m \in {"application/json"} |->
                  [schema |-> [type |-> "object",
                               properties |-> <<[key |-> "n", schema |-> [type |-> "string"]]>>]]]]

GetOperation(parameters) ==
  [get |-> [tags |-> <<INCLUDE_TAG>>, parameters |-> parameters]]

\* "/gates/{id}" with only GET, a required string path parameter id, no body
GatesDocument ==
  [path |-> <<"/", "g", "a", "t", "e", "s", "/", "{", "i", "d", "}">>,
   item |-> GetOperation(<<IdInPath("string")>>)]

DispatchDocuments ==
  {GatesDocument,
   [path |-> <<"/", "{", "i", "d", "}", "/", "x">>,
    item |-> GetOperation(<<IdInPath("integer"), LimitInQuery>>)],
   [path |-> <<"/", "{", "i", "d", "}", "/", "{", "i", "d", "}">>,
    item |-> GetOperation(<<IdInPath("string")>>)],
   [path |-> <<"/", "g", "a", "t", "e", "s">>,
    item |-> GetOperation(<<LimitInQuery, KeyInQuery>>)],
   [path |-> <<"/", "g", "a", "t", "e", "s", "/", "{", "i", "d", "}">>,
    item |-> [get |-> [tags |-> <<INCLUDE_TAG>>, parameters |-> <<IdInPath("string")>>],
              post |-> [tags |-> <<INCLUDE_TAG>>,
                        parameters |-> <<IdInPath("string"), LimitInQuery>>,
                        requestBody |-> NameBody]]]}

Get == [key |-> "method", value |-> StrVal("get")]

IdValues ==
  {StrVal(<<"a", "b", "c">>), StrVal(<<"4", "2">>), NumVal(<<"4", "2">>),
   StrVal(<<"a", "/", "b">>)}

\* {method: "get", get_params: {id: value}}
NestedArguments(value) ==
  ObjVal(<<Get, [key |-> "get_params",
                 value |-> ObjVal(<<[key |-> "id", value |-> value]>>)]>>)

\* {method: "get", id: "abc"}
FlatArguments ==
  ObjVal(<<Get, [key |-> "id", value |-> StrVal(<<"a", "b", "c">>)]>>)

\* {method: "get", get_params: {limit: 7, key: null}}
LimitAndNullKey ==
  ObjVal(<<Get, [key |-> "get_params",
                 value |-> ObjVal(<<[key |-> "limit", value |-> NumVal(<<"7">>)],
                                    [key |-> "key", value |-> Null]>>)]>>)

\* {method: "get", get_params: {key: "a/b", limit: 7}}
KeyAndLimit ==
  ObjVal(<<Get, [key |-> "get_params",
                 value |-> ObjVal(<<[key |-> "key", value |-> StrVal(<<"a", "/", "b">>)],
                                    [key |-> "limit", value |-> NumVal(<<"7">>)]>>)]>>)

\* {method: "post", post_params: {id: "abc", limit: 7}, "application/json": {n: "x"}}
PostWithBody ==
  ObjVal(<<[key |-> "method", value |-> StrVal("post")],
           [key |-> "post_params",
            value |-> ObjVal(<<[key |-> "id", value |-> StrVal(<<"a", "b", "c">>)],
                               [key |-> "limit", value |-> NumVal(<<"7">>)]>>)],
           [key |-> "application/json",
            value |-> ObjVal(<<[key |-> "n", value |-> StrVal(<<"x">>)]>>)]>>)

\* {get_params: {id: "abc"}}
WithoutMethod ==
  ObjVal(<<[key |-> "get_params",
            value |-> ObjVal(<<[key |-> "id", value |-> StrVal(<<"a", "b", "c">>)]>>)]>>)

\* the arguments a client sends
Arguments ==
  {ObjVal(<<>>), LimitAndNullKey, KeyAndLimit, PostWithBody, WithoutMethod,
   ObjVal(<<Get>>),
   ObjVal(<<Get, [key |-> "get_params", value |-> ObjVal(<<>>)]>>),
   ObjVal(<<Get, [key |-> "get_params",
                  value |-> ObjVal(<<[key |-> "id", value |-> NumVal(<<"4", "2">>)],
                                     [key |-> "limit", value |-> NumVal(<<"7">>)]>>)]>>),
   FlatArguments}
  \cup {NestedArguments(v) : v \in IdValues}

\* the upstream answers: status, content-type header (<<>> when absent), body
Responses ==
  {[status |-> 200, contentType |-> <<"text/plain">>, body |-> <<"o", "o", "p", "s">>],
   [status |-> 200, contentType |-> <<"application/json">>, body |-> <<" ", "7">>],
   [status |-> 200, contentType |-> <<"application/json", ";", " ", "charset=utf-8">>,
    body |-> <<"o", "o", "p", "s">>],
   [status |-> 200, contentType |-> <<>>, body |-> <<"{", "}">>],
   [status |-> 404, contentType |-> <<"application/json">>, body |-> <<"{", "}">>],
   [status |-> 404, contentType |-> <<"text/plain">>, body |-> <<"o", "o", "p", "s">>]}

NoRequest == [t |-> "none"]
NoResponse == [t |-> "none"]
NoResult == [t |-> "none"]

\* the protocol error of a tools/call whose arguments fail validation
InvalidParams == [isError |-> TRUE, text |-> <<"Invalid arguments">>]

\* what buildTools leaves behind for a document of one path, given the
\* identifier of the path and its compiled methods
Built(endpoint, toolName, methods, whn) ==
  [schema |-> <<[endpoint |-> endpoint, methods |-> methods]>>,
   toolNames |-> {toolName},
   assigned |-> <<toolName>>,
   tools |-> IF Len(MethodsToUse(methods, whn)) = 0 THEN <<>>
             ELSE <<Tool(toolName, endpoint, MethodsToUse(methods, whn))>>]

BuildTools(doc, whn) ==
  Built(doc.path, ToolName(doc.path, {}), SpecToZodPath(doc.item, EmptyObject), whn)

\* the state once main() has built the tools of a one-path document and
\* connected the transport
InitDispatch ==
  /\ document \in DispatchDocuments
  /\ showWarehouseNative = FALSE
  /\ \E built \in {BuildTools(document, showWarehouseNative)} :
       /\ schema = built.schema
       /\ toolNames = built.toolNames
       /\ assigned = built.assigned
       /\ tools = built.tools
  /\ compiled = NotCompiled
  /\ probe = NoProbe
  /\ calls = <<>>
  /\ main = NoMain
  /\ fetches = <<>>

\* one call of fetch: the function that made it and, for a handler, the
\* dispatch it belongs to (0 for main)
Fetch(by, call) == [by |-> by, call |-> call]

\* a tools/call arrives: the arguments are validated against the tool's
\* parameters and, when they pass, the handler runs up to its fetch
CallTool(i, arguments) ==
  /\ Len(calls) < MaxCalls
  /\ i \in 1..Len(tools)
  /\ LET paramsSchema == ZObject(EnhancedParameters(tools[i].methodsToUse))
     IN /\ calls' = Append(calls,
          IF Accepts(paramsSchema, arguments)
          THEN [tool |-> i, arguments |-> arguments, stage |-> "fetching",
                request |-> Request(tools[i], Output(paramsSchema, arguments).v),
                response |-> NoResponse, result |-> NoResult]
          ELSE [tool |-> i, arguments |-> arguments, stage |-> "done",
                request |-> NoRequest,
                response |-> NoResponse, result |-> InvalidParams])
     /\ fetches' = IF Accepts(paramsSchema, arguments)
                   THEN Append(fetches, Fetch("handler", Len(calls) + 1))
                   ELSE fetches
  /\ UNCHANGED <<registryVars, compileVars, main>>

\* a handler that keeps the last response in a variable all dispatches share:
\* a later dispatch reads what the first one stored
FetchResolvesShared(c, response) ==
  /\ c \in 1..Len(calls)
  /\ calls[c].stage = "fetching"
  /\ calls' = [calls EXCEPT ![c] =
                 [@ EXCEPT !.stage = "done", !.response = response,
                           !.result = HandleResponse(
                              IF c > 1 /\ calls[1].response # NoResponse
                              THEN calls[1].response ELSE response)]]
  /\ UNCHANGED <<registryVars, compileVars, main, fetches>>

\* the fetch of dispatch c resolves and the handler runs to its end
FetchResolves(c, response) ==
  /\ c \in 1..Len(calls)
  /\ calls[c].stage = "fetching"
  /\ calls' = [calls EXCEPT ![c] =
                 [@ EXCEPT !.stage = "done", !.response = response,
                           !.result = HandleResponse(response)]]
  /\ UNCHANGED <<registryVars, compileVars, main, fetches>>

\* a handler that sends its request a second time when the fetch rejects, and
\* fails when that one is rejected too
FetchRejectsRetrying(c) ==
  /\ c \in 1..Len(calls)
  /\ calls[c].stage = "fetching"
  /\ calls' = [calls EXCEPT ![c] =
                 [@ EXCEPT !.stage = "done",
                           !.result = Rethrown(<<"fetch failed">>)]]
  /\ fetches' = Append(fetches, Fetch("handler", c))
  /\ UNCHANGED <<registryVars, compileVars, main>>

\* the fetch of dispatch c rejects
FetchRejects(c) ==
  /\ c \in 1..Len(calls)
  /\ calls[c].stage = "fetching"
  /\ calls' = [calls EXCEPT ![c] =
                 [@ EXCEPT !.stage = "done",
                           !.result = Rethrown(<<"fetch failed">>)]]
  /\ UNCHANGED <<registryVars, compileVars, main, fetches>>

NextDispatch ==
  \/ \E i \in 1..Len(tools), arguments \in Arguments : CallTool(i, arguments)
  \/ \E c \in 1..MaxCalls, response \in Responses : FetchResolves(c, response)
  \/ \E c \in 1..MaxCalls : FetchRejects(c)

SpecDispatch == InitDispatch /\ [][NextDispatch]_vars

\* ------------------------------------------------------ claims on dispatch
Issued(c) == calls[c].request # NoRequest

\* the path of an issued URL: what follows the base, up to the first "?"
PathOf(url) ==
  LET rest == SubSeq(url, Len(GetUrlBase) + 1, Len(url))
  IN IF \E i \in 1..Len(rest) : rest[i] = "?"
     THEN SubSeq(rest, 1, (CHOOSE i \in 1..Len(rest) :
                             rest[i] = "?" /\ \A j \in 1..(i - 1) : rest[j] # "?") - 1)
     ELSE rest

\* the path parameters the document declares for the GET operation
DeclaredPathParameters ==
  {document.item.get.parameters[k].name :
     k \in {k \in 1..Len(document.item.get.parameters) :
              document.item.get.parameters[k].in = "path"}}

\* the positions of the template at which "{id}" stands
IdPlaceholders(template) ==
  {i \in 1..(Len(template) - 3) :
     SubSeq(template, i, i + 3) = <<"{", "i", "d", "}">>}

\* C3: whenever a dispatch would leave the placeholder of a declared path
\* parameter in the request path, it ends in an error to the caller and no
\* request is issued with a path that still contains the placeholder.
C3_NoRequestWithLeftoverPlaceholder ==
  \A c \in 1..Len(calls) :
    Issued(c) =>
      \A name \in DeclaredPathParameters :
        \A i \in 1..(Len(PathOf(calls[c].request.url)) - Len(Chars(name)) - 1) :
          SubSeq(PathOf(calls[c].request.url), i, i + Len(Chars(name)) + 1)
            # <<"{">> \o Chars(name) \o <<"}">>

\* the value the caller gave for id inside the per-verb object, if any
GivenId(c) ==
  LET given == Lookup(calls[c].arguments.v, "get_params")
  IN IF given.k = "object" THEN Lookup(given.v, "id") ELSE Undefined

\* C4: for a path template with exactly one "{id}" placeholder whose operation
\* declares id as a path parameter, a dispatch supplying id = 42 issues a
\* request whose path has no "{" and is the template with "42" in the place of
\* the placeholder, every other character unchanged.
C4_SinglePlaceholderReplacedBy42 ==
  \A c \in 1..Len(calls) :
    (/\ Issued(c)
     /\ Cardinality(IdPlaceholders(document.path)) = 1
     /\ "id" \in DeclaredPathParameters
     /\ GivenId(c).k \in {"string", "number"}
     /\ GivenId(c).v = <<"4", "2">>)
    => LET i == CHOOSE i \in IdPlaceholders(document.path) : TRUE
           path == PathOf(calls[c].request.url)
       IN /\ path = SubSeq(document.path, 1, i - 1) \o <<"4", "2">>
                    \o SubSeq(document.path, i + 4, Len(document.path))
          /\ \A k \in 1..Len(path) : path[k] # "{"

\* C4 witness: "/{id}/x" was dispatched with id = 42 and "/42/x" requested
C4_Witness ==
  \E c \in 1..Len(calls) :
    /\ document.path = <<"/", "{", "i", "d", "}", "/", "x">>
    /\ GivenId(c) = NumVal(<<"4", "2">>)
    /\ Issued(c)
    /\ PathOf(calls[c].request.url) = <<"/", "4", "2", "/", "x">>

GatesAbc ==
  [method |-> "get",
   url |-> GetUrlBase \o <<"/", "g", "a", "t", "e", "s", "/", "a", "b", "c">>]

\* C5 as stated: for the document with "/gates/{id}", only GET, a required
\* string path parameter id and no body, a dispatch with the arguments
\* {method: "get", id: "abc"} issues exactly GET {base}/gates/abc.
C5_FlatArgumentsRequestGatesAbc ==
  \A c \in 1..Len(calls) :
    (document = GatesDocument /\ calls[c].arguments = FlatArguments)
    => calls[c].request = GatesAbc

\* C5 amended: for that document, a dispatch with the arguments
\* {method: "get", get_params: {id: "abc"}} issues exactly GET {base}/gates/abc:
\* the verb get, the URL the base followed by "/gates/abc", no query string.
C5_NestedArgumentsRequestGatesAbc ==
  \A c \in 1..Len(calls) :
    (/\ document = GatesDocument
     /\ calls[c].arguments = NestedArguments(StrVal(<<"a", "b", "c">>)))
    => calls[c].request = GatesAbc

\* C5 witness: the nested arguments were dispatched and the request went out
C5_Witness ==
  \E c \in 1..Len(calls) :
    /\ document = GatesDocument
    /\ calls[c].arguments = NestedArguments(StrVal(<<"a", "b", "c">>))
    /\ calls[c].request = GatesAbc
    /\ calls[c].stage = "fetching"

Answered(c) == calls[c].stage = "done" /\ calls[c].response # NoResponse

\* C6: a dispatch whose upstream response has a non-success status ends in a
\* failure surfaced to the caller that carries the status code and the body
\* text; it is never returned as a successful result.
C6_NonSuccessStatusFailsWithStatusAndBody ==
  \A c \in 1..Len(calls) :
    (Answered(c) /\ calls[c].response.status \notin 200..299)
    => /\ calls[c].result.isError
       /\ Includes(calls[c].result.text, NumToStr(calls[c].response.status))
       /\ Includes(calls[c].result.text, calls[c].response.body)

\* C6 witness: a 404 with the body "oops" came back as an error with both
C6_Witness ==
  \E c \in 1..Len(calls) :
    /\ Answered(c)
    /\ calls[c].response.status = 404
    /\ calls[c].response.body = <<"o", "o", "p", "s">>
    /\ calls[c].result =
         [isError |-> TRUE,
          text |-> <<"Error calling the API: ", "API Error (", "4", "0", "4", "): ",
                     "o", "o", "p", "s">>]

DeclaresJson(response) ==
  \E i \in 1..Len(response.contentType) : response.contentType[i] = "application/json"

\* the bodies that are JSON texts, with the text of their value
JsonBodies == {<<" ", "7">>, <<"{", "}">>}

ValueText(body) == IF body = <<" ", "7">> THEN <<"7">> ELSE body

\* C7 as stated: on a success response the dispatch returns the content, the
\* text unmodified when the declared content type is not JSON and the parsed
\* data when it is; a success response never produces an error.
C7_SuccessNeverAnError ==
  \A c \in 1..Len(calls) :
    (Answered(c) /\ calls[c].response.status \in 200..299)
    => /\ ~calls[c].result.isError
       /\ ~DeclaresJson(calls[c].response)
            => calls[c].result.text = calls[c].response.body

\* C7 amended: on a success response the dispatch returns the response text
\* unmodified when the declared content type is not JSON; when it is JSON and
\* the body parses, it returns the text of the parsed value (not the body as
\* sent); when it is JSON and the body does not parse, the dispatch ends in an
\* error. Nothing else of the response is examined.
C7_SuccessReturnsTextOrParsedJson ==
  \A c \in 1..Len(calls) :
    (Answered(c) /\ calls[c].response.status \in 200..299)
    => LET response == calls[c].response
           result == calls[c].result
       IN /\ ~DeclaresJson(response)
               => result = [isError |-> FALSE, text |-> response.body]
          /\ (DeclaresJson(response) /\ response.body \in JsonBodies)
               => result = [isError |-> FALSE, text |-> ValueText(response.body)]
          /\ (DeclaresJson(response) /\ response.body \notin JsonBodies)
               => result.isError

\* C7 witness: a success declared as JSON with the body " 7" was returned as "7"
C7_Witness ==
  \E c \in 1..Len(calls) :
    /\ Answered(c)
    /\ calls[c].response =
         [status |-> 200, contentType |-> <<"application/json">>, body |-> <<" ", "7">>]
    /\ calls[c].result = [isError |-> FALSE, text |-> <<"7">>]

\* ----------------------------------------------------- runs of references
ChainNames == <<"A", "B", "C", "D">>

\* { $ref: "#/components/schemas/<name>" }, the pointer as its parts
RefTo(name) == [ref |-> <<"schemas", name>>]

TerminalSchemas ==
  {[type |-> "string"], [type |-> "integer"], [type |-> "boolean"],
   [type |-> "object", properties |-> <<[key |-> "n", schema |-> [type |-> "string"]]>>,
    required |-> {"n"}]}

\* components.schemas: A refers to B, ..., the d-th name holds the last schema
ChainComponents(d, last) ==
  [schemas |->
     [n \in {ChainNames[i] : i \in 1..d} |->
        IF n = ChainNames[d] THEN last
        ELSE RefTo(ChainNames[(CHOOSE i \in 1..d : ChainNames[i] = n) + 1])]]

\* components whose schemas refer back to A
CyclicComponents ==
  {ChainComponents(d, RefTo("A")) : d \in 1..MaxChain}
  \cup {[schemas |-> [n \in {"A"} |->
           [type |-> "object", properties |-> <<[key |-> "next", schema |-> RefTo("A")]>>]]],
        [schemas |-> [n \in {"A"} |-> [type |-> "array", items |-> RefTo("A")]]]}

\* an operation that uses the schema for its parameter p or for its JSON body
OperationUsing(site, required, schemaObject) ==
  IF site = "parameter"
  THEN [tags |-> <<INCLUDE_TAG>>,
        parameters |-> <<[name |-> "p", in |-> "query", required |-> required,
                          schema |-> schemaObject]>>]
  ELSE [tags |-> <<INCLUDE_TAG>>,
        requestBody |-> [required |-> required,
                         content |-> [m \in {"application/json"} |->
                                        [schema |-> schemaObject]]]]

Sites == {"parameter", "body"}

\* documents whose $ref chain ends in a schema held in components.schemas
ChainDocuments ==
  {[kind |-> "chain", site |-> site, required |-> r, terminal |-> t,
    components |-> ChainComponents(d, t),
    operation |-> OperationUsing(site, r, RefTo("A"))] :
     site \in Sites, r \in BOOLEAN, t \in TerminalSchemas, d \in 1..MaxChain}

\* documents whose $ref chain comes back to its start
CyclicDocuments ==
  {[kind |-> "cyclic", site |-> site, required |-> r,
    components |-> c,
    operation |-> OperationUsing(site, r, RefTo("A"))] :
     site \in Sites, r \in BOOLEAN, c \in CyclicComponents}

\* documents with a pointer that components does not hold: in a schema (at
\* once, or at the end of a chain), in place of a parameter, in place of a
\* request body
MissingDocuments ==
  {[kind |-> "missing", site |-> site, required |-> r, pointer |-> <<"schemas", "Missing">>,
    components |-> IF atOnce THEN EmptyObject ELSE ChainComponents(1, RefTo("Missing")),
    operation |-> OperationUsing(site, r, IF atOnce THEN RefTo("Missing") ELSE RefTo("A"))] :
     site \in Sites, r \in BOOLEAN, atOnce \in BOOLEAN}
  \cup
  {[kind |-> "missing", site |-> "parameter", required |-> TRUE,
    pointer |-> <<"parameters", "Missing">>,
    components |-> EmptyObject,
    operation |-> [tags |-> <<INCLUDE_TAG>>,
                   parameters |-> <<[ref |-> <<"parameters", "Missing">>]>>]],
   [kind |-> "missing", site |-> "body", required |-> TRUE,
    pointer |-> <<"requestBodies", "Missing">>,
    components |-> EmptyObject,
    operation |-> [tags |-> <<INCLUDE_TAG>>,
                   requestBody |-> [ref |-> <<"requestBodies", "Missing">>]]]}

ReferenceDocuments == ChainDocuments \cup CyclicDocuments \cup MissingDocuments

ReferenceValues ==
  ProbeValues \cup {Undefined, ObjVal(<<>>),
                    ObjVal(<<[key |-> "n", value |-> StrVal(<<"x">>)]>>)}

InitReferences ==
  /\ document \in ReferenceDocuments
  /\ compiled = NotCompiled
  /\ probe = NoProbe
  /\ schema = <<>>
  /\ showWarehouseNative = FALSE
  /\ toolNames = {}
  /\ assigned = <<>>
  /\ tools = <<>>
  /\ calls = <<>>
  /\ main = NoMain
  /\ fetches = <<>>

\* the body of specToZod's loop for the POST operation of the document
CompileReferences ==
  /\ compiled = NotCompiled
  /\ compiled' = CompileOperation("post", document.operation, document.components)
  /\ UNCHANGED <<registryVars, document, probe, calls, main, fetches>>

\* whether the compiled operation has a validator at the site of the document
HasValidator(operation, site) ==
  IF site = "parameter"
  THEN GetProperty(operation.parameters.entries, "p") # NoZod
  ELSE operation.requestBody # NoZod

\* the validator of the parameter p, or of the JSON body
ValidatorAt(operation, site) ==
  IF site = "parameter"
  THEN GetProperty(operation.parameters.entries, "p")
  ELSE operation.requestBody.entries[1].zod

\* the compiled validator parses a value
ValidateReference(value) ==
  /\ compiled # NotCompiled
  /\ ~IsThrowValue(compiled)
  /\ HasValidator(compiled, document.site)
  /\ probe' = [input |-> value,
               success |-> Accepts(ValidatorAt(compiled, document.site), value)]
  /\ UNCHANGED <<registryVars, document, compiled, calls, main, fetches>>

NextReferences ==
  CompileReferences \/ \E value \in ReferenceValues : ValidateReference(value)

SpecReferences == InitReferences /\ [][NextReferences]_vars

\* ------------------------------------------------- claims on references
\* what the schema at the end of the chain says of a value, used where the
\* operation uses it
TerminalAdmits(terminal, required, value) ==
  \/ ~required /\ value = Undefined
  \/ CASE terminal.type = "object" ->
            /\ value.k = "object"
            /\ Lookup(value.v, "n").k = "string"
       [] OTHER -> value.k = KindOf(terminal.type)

\* C11: for every chain of $ref indirections of bounded depth that ends in a
\* schema held in the components, compiling a parameter schema or a body schema
\* that starts the chain ends without an exception, in a validator that accepts
\* exactly what the schema at the end of the chain accepts.
C11_ChainCompilesToTerminalValidator ==
  (document.kind = "chain" /\ compiled # NotCompiled) =>
    /\ ~IsThrowValue(compiled)
    /\ probe # NoProbe =>
         (probe.success <=>
            TerminalAdmits(document.terminal, document.required, probe.input))

\* the same, for the chains that start in the schema of a request body
C11_BodyChainCompilesToTerminalValidator ==
  document.site = "body" => C11_ChainCompilesToTerminalValidator

\* C12: compiling a schema, parameter or request body whose $ref names a
\* pointer that the components do not hold raises an error naming the pointer;
\* no validator results and the declaration is not left out silently.
C12_MissingPointerRaisesNamedError ==
  (document.kind = "missing" /\ compiled # NotCompiled) =>
    /\ IsThrowValue(compiled)
    /\ compiled.error.kind = "Could not resolve reference"
    /\ compiled.error.ref = document.pointer

\* the same, for the pointers that stand in the schema of a body or in place
\* of a body
C12_MissingInBodyRaisesNamedError ==
  document.site = "body" => C12_MissingPointerRaisesNamedError

\* C13: compiling a document whose $ref chain is cyclic ends in an exception;
\* no validator is returned for the cyclic schema.
C13_CyclicChainEndsInException ==
  (document.kind = "cyclic" /\ compiled # NotCompiled) => IsThrowValue(compiled)

\* C13 witness: the body schema A -> B -> A was compiled and the recursion
\* ended at the stack limit
C13_Witness ==
  /\ document.kind = "cyclic"
  /\ document.site = "body"
  /\ document.components = ChainComponents(2, RefTo("A"))
  /\ compiled = Throw([kind |-> "RangeError"])

\* ------------------------------------------------------- runs of startup
\* main(): its position, the answer to fetchOpenApiSpec's request, the error
\* that main().catch reports
Main(pc, response, error) == [pc |-> pc, response |-> response, error |-> error]

NoError == [kind |-> "none"]

\* process.exit(1) after console.error("Fatal error in main():", error)
Exited(response, error) == [pc |-> "exited", code |-> 1, response |-> response, error |-> error]

StartupPaths ==
  <<<<"/", "a", "_", "b">>, <<"/", "a", "-", "b">>, <<"/", "c">>, <<"/", "a", ".", "b">>>>

\* path items: an operation with the inclusion tag, one whose body schema
\* refers to an absent pointer, one with another tag, one without tags, one
\* tagged operation beside an untagged one, one for Warehouse Native, one with
\* a GET for the other deployments beside a POST for Warehouse Native
StartupItems ==
  {PlainGet,
   [post |-> OperationUsing("body", TRUE, RefTo("Missing"))],
   [get |-> [tags |-> <<<<"Gates">>>>]],
   [get |-> [parameters |-> <<>>]],
   [get |-> [tags |-> <<INCLUDE_TAG>>], post |-> [tags |-> <<<<"Gates">>>>]],
   [get |-> [tags |-> <<INCLUDE_TAG, <<"Gates", WHN_TAG_SUBSTR>>>>]],
   [get |-> [tags |-> <<INCLUDE_TAG>>],
    post |-> [tags |-> <<INCLUDE_TAG, <<"Gates", WHN_TAG_SUBSTR>>>>]]}

ItemLists == UNION {[1..n -> StartupItems] : n \in 0..MaxItems}

StartupDocuments ==
  {[paths |-> [i \in 1..Len(items) |-> [path |-> StartupPaths[i], item |-> items[i]]]] :
     items \in ItemLists}

\* what the server answers to the request for the document
SpecResponses ==
  {[status |-> 200, json |-> d] : d \in StartupDocuments}
  \cup {[status |-> st, body |-> b] : st \in {404, 500}, b \in {<<>>, <<"n", "o">>}}

InitStartup ==
  /\ main = Main("company", NoResponse, NoError)
  /\ fetches = <<>>
  /\ document = NoDocument
  /\ compiled = NotCompiled
  /\ probe = NoProbe
  /\ schema = <<>>
  /\ showWarehouseNative = FALSE
  /\ toolNames = {}
  /\ assigned = <<>>
  /\ tools = <<>>
  /\ calls = <<>>

\* the rejection of a fetch that main() awaits
FetchFailed == [kind |-> "fetch failed"]

\* const isWHN = await isWarehouseNative(); the mode is isWHN === false ? false : true
IsWarehouseNative(isWHN) ==
  /\ main.pc = "company"
  /\ showWarehouseNative' = (isWHN # "false")
  /\ main' = [main EXCEPT !.pc = "loading"]
  /\ fetches' = Append(fetches, Fetch("isWarehouseNative", 0))
  /\ UNCHANGED <<schema, toolNames, assigned, tools, compileVars, calls>>

\* the fetch of isWarehouseNative() rejects: main() throws
IsWarehouseNativeRejects ==
  /\ main.pc = "company"
  /\ main' = Exited(NoResponse, FetchFailed)
  /\ fetches' = Append(fetches, Fetch("isWarehouseNative", 0))
  /\ UNCHANGED <<registryVars, compileVars, calls>>

\* new OpenApiToZod(specUrl).initialize(): fetchOpenApiSpec answers with the
\* document or throws
FetchOpenApiSpec(response) ==
  /\ main.pc = "loading"
  /\ IF IsOk(response.status)
     THEN /\ document' = response.json
          /\ main' = Main("compiling", response, NoError)
     ELSE /\ document' = document
          /\ main' = Exited(response, [kind |-> "Error fetching OpenAPI spec",
                                       status |-> response.status])
  /\ fetches' = Append(fetches, Fetch("fetchOpenApiSpec", 0))
  /\ UNCHANGED <<registryVars, compiled, probe, calls>>

\* the fetch of fetchOpenApiSpec rejects: initialize() and main() throw
FetchOpenApiSpecRejects ==
  /\ main.pc = "loading"
  /\ main' = Exited(NoResponse, FetchFailed)
  /\ fetches' = Append(fetches, Fetch("fetchOpenApiSpec", 0))
  /\ UNCHANGED <<registryVars, compileVars, calls>>

\* const schema = converter.specToZod()
CompileDocument ==
  /\ main.pc = "compiling"
  /\ \E result \in {SpecToZod(document)} :
       /\ compiled' = result
       /\ main' = IF IsThrowValue(result)
                  THEN Exited(main.response, result.error)
                  ELSE [main EXCEPT !.pc = "building"]
  /\ UNCHANGED <<registryVars, document, probe, calls, fetches>>

\* the next iteration of the loop over Object.entries(schema)
RegisterNext ==
  /\ main.pc = "building"
  /\ Len(schema) < Len(compiled.entries)
  /\ RegisterTool(compiled.entries[Len(schema) + 1])

\* a main() that connects the transport while tools are still being registered
ConnectEarly ==
  /\ main.pc = "building"
  /\ main' = [main EXCEPT !.pc = "connected"]
  /\ UNCHANGED <<registryVars, compileVars, calls, fetches>>

\* after the loop: await server.connect(transport)
Connect ==
  /\ main.pc = "building"
  /\ Len(schema) = Len(compiled.entries)
  /\ main' = [main EXCEPT !.pc = "connected"]
  /\ UNCHANGED <<registryVars, compileVars, calls, fetches>>

\* the tools/call requests a client sends over the connected transport:
\* {method: "get"} and {method: "post"}
ServedArguments == {ObjVal(<<Get>>), ObjVal(<<[key |-> "method", value |-> StrVal("post")]>>)}

\* the upstream answers to them
ServedResponses ==
  {[status |-> 200, contentType |-> <<"text/plain">>, body |-> <<"o", "k">>],
   [status |-> 404, contentType |-> <<"text/plain">>, body |-> <<"o", "o", "p", "s">>]}

\* the transport hands a tools/call to the server: there is none before
\* server.connect(transport)
ServeCall(i, arguments) ==
  /\ main.pc = "connected"
  /\ Len(calls) < MaxServed
  /\ CallTool(i, arguments)

NextStartup ==
  \/ \E isWHN \in {"true", "false", "null"} : IsWarehouseNative(isWHN)
  \/ IsWarehouseNativeRejects
  \/ \E response \in SpecResponses : FetchOpenApiSpec(response)
  \/ FetchOpenApiSpecRejects
  \/ CompileDocument
  \/ RegisterNext
  \/ Connect
  \/ \E i \in 1..Len(tools), arguments \in ServedArguments : ServeCall(i, arguments)
  \/ \E c \in 1..MaxServed, response \in ServedResponses : FetchResolves(c, response)
  \/ \E c \in 1..MaxServed : FetchRejects(c)

SpecStartup == InitStartup /\ [][NextStartup]_vars

\* --------------------------------------------------- claims on startup
\* C14: for every document whose paths mapping is empty, the compile pass
\* returns an empty mapping and raises no error, and no tool is registered.
C14_NoPathsNoToolsNoError ==
  (document # NoDocument /\ document.paths = <<>>) =>
    /\ main.pc # "exited"
    /\ compiled # NotCompiled => compiled = [t |-> "schema", entries |-> <<>>]
    /\ tools = <<>>

\* C14 witness: startup went through with the document without paths
C14_Witness ==
  /\ main.pc = "connected"
  /\ document = [paths |-> <<>>]
  /\ compiled = [t |-> "schema", entries |-> <<>>]
  /\ tools = <<>>

\* the operations of a path that compile without an exception
WellFormedMethods(doc, i) ==
  {m \in SeqRange(IncludedMethods(doc.paths[i].item)) :
     ~IsThrowValue(CompileOperation(m, doc.paths[i].item[m], EmptyObject))}

\* the operations of the document that throw while they are compiled
MalformedOperations(doc) ==
  {<<i, m>> \in (1..Len(doc.paths)) \X SeqRange(HTTP_METHODS) :
     /\ m \in SeqRange(IncludedMethods(doc.paths[i].item))
     /\ IsThrowValue(CompileOperation(m, doc.paths[i].item[m], EmptyObject))}

\* C15: for a document with one malformed operation and well-formed operations
\* on other paths, every well-formed operation (of the server's mode) is in the
\* registry once startup has ended.
C15_WellFormedOperationsRegistered ==
  (/\ main.pc \in {"connected", "exited"}
   /\ document # NoDocument
   /\ Cardinality(MalformedOperations(document)) = 1) =>
    \A i \in 1..Len(document.paths) :
      \A m \in WellFormedMethods(document, i) :
        (CompileOperation(m, document.paths[i].item[m], EmptyObject).isWHN
           = showWarehouseNative) =>
          \E t \in 1..Len(tools) :
            /\ tools[t].endpoint = document.paths[i].path
            /\ m \in SeqRange(tools[t].methodNames)

\* C19: fetchOpenApiSpec gives the parsed document only for a success status;
\* for any other status it throws an error carrying the status code and the
\* response body, and startup does not go on to the compile pass.
C19_LoadFailsWithStatusAndBody ==
  main.response # NoResponse =>
    IF IsOk(main.response.status)
    THEN document = main.response.json
    ELSE /\ document = NoDocument
         /\ compiled = NotCompiled
         /\ main.pc = "exited"
         /\ main.error.status = main.response.status
         /\ Has(main.error, "body")
         /\ main.error.body = main.response.body

\* the same without the response body
C19_LoadFailsWithStatus ==
  main.response # NoResponse =>
    IF IsOk(main.response.status)
    THEN document = main.response.json
    ELSE /\ document = NoDocument
         /\ compiled = NotCompiled
         /\ tools = <<>>
         /\ main.pc = "exited"
         /\ main.error = [kind |-> "Error fetching OpenAPI spec",
                          status |-> main.response.status]

\* whether the operation of a path item carries the inclusion tag
CarriesInclusionTag(pathItem, m) ==
  /\ Has(pathItem, m)
  /\ Has(pathItem[m], "tags")
  /\ \E i \in 1..Len(pathItem[m].tags) : pathItem[m].tags[i] = <<"MCP">>

\* C20: every compiled operation in the output of specToZod belongs to an
\* operation that carries the tag MCP; an operation without tags or without
\* that tag is never compiled, and a path none of whose operations carries the
\* tag is no key of the output.
C20_OnlyTaggedOperationsCompiled ==
  (compiled # NotCompiled /\ ~IsThrowValue(compiled)) =>
    /\ \A e \in 1..Len(compiled.entries) :
         \E i \in 1..Len(document.paths) :
           /\ document.paths[i].path = compiled.entries[e].endpoint
           /\ Len(compiled.entries[e].methods) > 0
           /\ \A o \in 1..Len(compiled.entries[e].methods) :
                CarriesInclusionTag(document.paths[i].item,
                                    compiled.entries[e].methods[o].verb)
    /\ \A i \in 1..Len(document.paths) :
         (\A m \in SeqRange(HTTP_METHODS) : ~CarriesInclusionTag(document.paths[i].item, m))
         => \A e \in 1..Len(compiled.entries) :
              compiled.entries[e].endpoint # document.paths[i].path

\* C20 witness: of a path with a tagged GET beside an untagged POST and a path
\* with an untagged GET, the output holds the first path with its GET alone
C20_Witness ==
  /\ compiled # NotCompiled
  /\ ~IsThrowValue(compiled)
  /\ Len(document.paths) = 2
  /\ document.paths[1].item =
       [get |-> [tags |-> <<INCLUDE_TAG>>], post |-> [tags |-> <<<<"Gates">>>>]]
  /\ document.paths[2].item = [get |-> [tags |-> <<<<"Gates">>>>]]
  /\ Len(compiled.entries) = 1
  /\ compiled.entries[1].endpoint = document.paths[1].path
  /\ MethodNames(compiled.entries[1].methods) = <<"get">>

\* ------------------------------------------- claims on the issued request
\* the tool and the compiled operation a request was issued for
ToolOf(c) == tools[calls[c].tool]

OperationOf(c) ==
  ToolOf(c).methodsToUse[CHOOSE i \in 1..Len(ToolOf(c).methodsToUse) :
                           ToolOf(c).methodsToUse[i].verb = calls[c].request.method]

\* C16: for every dispatch whose verb carries a body (POST, PUT or PATCH) and
\* whose compiled operation has a request-body validator, the issued request has
\* as its body the JSON text of the argument keyed "application/json"; for a verb
\* that carries no body, no body is sent.
C16_BodyVerbsSendJsonArgument ==
  \A c \in 1..Len(calls) :
    Issued(c) =>
      IF /\ calls[c].request.method \in {"post", "put", "patch"}
         /\ OperationOf(c).requestBody # NoZod
      THEN /\ Has(calls[c].request, "body")
           /\ calls[c].request.body =
                JsonStringify(Lookup(calls[c].arguments.v, "application/json"))
      ELSE ~Has(calls[c].request, "body")

\* text.split(separator) for a separator of one character
RECURSIVE Split(_, _)
Split(text, separator) ==
  IF \E i \in 1..Len(text) : text[i] = separator
  THEN LET at == CHOOSE i \in 1..Len(text) :
                   text[i] = separator /\ \A j \in 1..(i - 1) : text[j] # separator
       IN <<SubSeq(text, 1, at - 1)>> \o Split(SubSeq(text, at + 1, Len(text)), separator)
  ELSE <<text>>

\* the name=value pairs of an issued URL: what follows its "?", cut at each "&"
QueryPairs(url) ==
  LET rest == SubSeq(url, Len(GetUrlBase) + 1, Len(url))
  IN IF Len(rest) = Len(PathOf(url)) THEN <<>>
     ELSE Split(SubSeq(rest, Len(PathOf(url)) + 2, Len(rest)), "&")

\* the pairs of the query that carry the name
PairsNamed(url, name) ==
  {i \in 1..Len(QueryPairs(url)) :
     OccursAt(QueryPairs(url)[i], Chars(name) \o <<"=">>, 1)}

\* the value the caller gave for a parameter inside the object of the verb
GivenFor(c, name) ==
  LET given == Lookup(calls[c].arguments.v, ParamsKey(calls[c].request.method))
  IN IF given.k = "object" THEN Lookup(given.v, name) ELSE Undefined

\* the names the selected operation declares
DeclaredNames(c) ==
  {OperationOf(c).parameters.entries[i].name :
     i \in 1..Len(OperationOf(c).parameters.entries)}

\* the declared names the query has to carry: no path parameter, a value given
InQuery(c) ==
  {n \in DeclaredNames(c) :
     /\ n \notin SeqRange(OperationOf(c).pathParameters)
     /\ GivenFor(c, n).k \notin {"null", "undefined"}}

\* C17: in every dispatch, each supplied parameter that is no path parameter of
\* the selected operation and whose value is not null/undefined stands exactly
\* once in the query string, with its value as text (form-encoded); a parameter
\* whose value is null/undefined does not stand there; a path parameter never
\* does; and without any entry the URL has no "?".
C17_QueryHoldsEachGivenParameterOnce ==
  \A c \in 1..Len(calls) :
    Issued(c) =>
      /\ \A n \in InQuery(c) :
           /\ Cardinality(PairsNamed(calls[c].request.url, n)) = 1
           /\ \A i \in PairsNamed(calls[c].request.url, n) :
                QueryPairs(calls[c].request.url)[i] =
                  Chars(n) \o <<"=">> \o FormEncode(GivenFor(c, n).v)
      /\ \A n \in DeclaredNames(c) \ InQuery(c) :
           PairsNamed(calls[c].request.url, n) = {}
      /\ Len(QueryPairs(calls[c].request.url)) = Cardinality(InQuery(c))
      /\ InQuery(c) = {} => \A i \in 1..Len(calls[c].request.url) :
                              calls[c].request.url[i] # "?"

\* C17 witness: GET /gates with limit = 7 and key = null asked for
\* /gates?limit=7
C17_Witness ==
  \E c \in 1..Len(calls) :
    /\ calls[c].arguments = LimitAndNullKey
    /\ Issued(c)
    /\ InQuery(c) = {"limit"}
    /\ calls[c].request.url =
         GetUrlBase \o <<"/", "g", "a", "t", "e", "s", "?", "l", "i", "m", "i", "t", "=", "7">>

\* whether the arguments pass for the tool apart from the verb selector
ValidWithoutSelector(c) ==
  /\ Lookup(calls[c].arguments.v, "method") = Undefined
  /\ Accepts(ZObject(Tail(EnhancedParameters(ToolOf(c).methodsToUse))), calls[c].arguments)

\* C18: the verb of every request of a dispatch is a verb declared for the
\* registry entry: the selected verb when the caller gives a selector, and the
\* first declared verb when the selector is left out.
C18_VerbSelectedOrFirstDeclared ==
  \A c \in 1..Len(calls) :
    /\ (Issued(c) /\ Lookup(calls[c].arguments.v, "method") # Undefined)
       => /\ calls[c].request.method = Lookup(calls[c].arguments.v, "method").v
          /\ calls[c].request.method \in SeqRange(ToolOf(c).methodNames)
    /\ ValidWithoutSelector(c)
       => /\ Issued(c)
          /\ calls[c].request.method = ToolOf(c).methodNames[1]

\* the same for the dispatches that give a selector: the verb requested is the
\* selected one, a declared one, and the URL is built from the object of that verb
C18_SelectedVerbRequested ==
  \A c \in 1..Len(calls) :
    Issued(c) =>
      /\ Lookup(calls[c].arguments.v, "method") # Undefined
      /\ calls[c].request.method = Lookup(calls[c].arguments.v, "method").v
      /\ calls[c].request.method \in SeqRange(ToolOf(c).methodNames)
      /\ \A n \in InQuery(c) : PairsNamed(calls[c].request.url, n) # {}

\* ---------------------------------------------------- runs of path items
\* a path item with parameters of its own beside those of its POST operation,
\* and the request body of that operation
NoBodyDeclared == [t |-> "none"]

MediaType(mediaType, schemaObject) == [m \in {mediaType} |-> [schema |-> schemaObject]]

RequestBodies ==
  {NoBodyDeclared,
   [required |-> TRUE, content |-> MediaType("text/plain", [type |-> "string"])],
   [required |-> TRUE, content |-> MediaType("application/json", [type |-> "string"])],
   [required |-> FALSE, content |-> MediaType("application/json", [type |-> "string"])],
   [content |-> MediaType("application/json", [type |-> "string"])],
   [required |-> FALSE,
    content |-> [m \in {"application/json", "text/plain"} |->
                   [schema |-> [type |-> IF m = "text/plain" THEN "string" ELSE "boolean"]]]]}

PathLevelParameters ==
  {<<>>, <<IdInPath("string")>>, <<LimitInQuery>>, <<IdInPath("string"), LimitInQuery>>}

\* operation-level lists: none, id again as an integer, limit again as a
\* required string, id by reference, id without a schema
OperationLevelParameters ==
  {<<>>,
   <<IdInPath("integer")>>,
   <<[name |-> "limit", in |-> "query", required |-> TRUE, schema |-> [type |-> "string"]]>>,
   <<[ref |-> <<"parameters", "Id">>]>>,
   <<[name |-> "id", in |-> "path", required |-> TRUE]>>}

PostOperation(parameters, requestBody) ==
  IF requestBody = NoBodyDeclared
  THEN [tags |-> <<INCLUDE_TAG>>, parameters |-> parameters]
  ELSE [tags |-> <<INCLUDE_TAG>>, parameters |-> parameters, requestBody |-> requestBody]

PathItemDocuments ==
  {[components |-> [parameters |-> [n \in {"Id"} |-> IdInPath("string")]],
    item |-> [parameters |-> pathLevel, post |-> PostOperation(operationLevel, body)]] :
     pathLevel \in PathLevelParameters,
     operationLevel \in OperationLevelParameters,
     body \in RequestBodies}

PathItemValues == {Undefined, StrVal(<<"x">>), NumVal(<<"7">>), BoolVal(<<"true">>)}

InitPathItem ==
  /\ document \in PathItemDocuments
  /\ compiled = NotCompiled
  /\ probe = NoProbe
  /\ schema = <<>>
  /\ showWarehouseNative = FALSE
  /\ toolNames = {}
  /\ assigned = <<>>
  /\ tools = <<>>
  /\ calls = <<>>
  /\ main = NoMain
  /\ fetches = <<>>

\* the body of specToZod's loop for pathItem.post: the path item's own
\* parameters are not read
CompilePathItem ==
  /\ compiled = NotCompiled
  /\ compiled' = CompileOperation("post", document.item.post, document.components)
  /\ UNCHANGED <<registryVars, document, probe, calls, main, fetches>>

\* the compiled validator of a parameter parses a value
ValidateParameter(name, value) ==
  /\ compiled # NotCompiled
  /\ ~IsThrowValue(compiled)
  /\ \E i \in 1..Len(compiled.parameters.entries) :
       /\ compiled.parameters.entries[i].name = name
       /\ probe' = [site |-> name, input |-> value,
                    success |-> Accepts(compiled.parameters.entries[i].zod, value)]
  /\ UNCHANGED <<registryVars, document, compiled, calls, main, fetches>>

\* the compiled validator of the request body parses a value
ValidateBody(value) ==
  /\ compiled # NotCompiled
  /\ ~IsThrowValue(compiled)
  /\ compiled.requestBody # NoZod
  /\ probe' = [site |-> "application/json", input |-> value,
               success |-> Accepts(compiled.requestBody.entries[1].zod, value)]
  /\ UNCHANGED <<registryVars, document, compiled, calls, main, fetches>>

NextPathItem ==
  \/ CompilePathItem
  \/ \E name \in {"id", "limit"}, value \in PathItemValues : ValidateParameter(name, value)
  \/ \E value \in PathItemValues : ValidateBody(value)

SpecPathItem == InitPathItem /\ [][NextPathItem]_vars

\* --------------------------------------------------- claims on path items
\* the declarations of a list that declare the name themselves, with a schema
DeclarationsOf(parameters, name) ==
  SelectSeq(parameters,
            LAMBDA p : ~Has(p, "ref") /\ Has(p, "schema") /\ p.name = name)

\* what a declaration says of a value
DeclaredAdmits(declaration, value) ==
  \/ ~declaration.required /\ value = Undefined
  \/ value.k = KindOf(declaration.schema.type)

\* the declaration that decides for the name: the operation's, else the path's
Deciding(name) ==
  IF DeclarationsOf(document.item.post.parameters, name) # <<>>
  THEN DeclarationsOf(document.item.post.parameters, name)[1]
  ELSE DeclarationsOf(document.item.parameters, name)[1]

DeclaredSomewhere(name) ==
  \/ DeclarationsOf(document.item.post.parameters, name) # <<>>
  \/ DeclarationsOf(document.item.parameters, name) # <<>>

\* C21: when a path-level and an operation-level parameter have the same name,
\* the compiled validator of the name is that of the operation-level
\* declaration (its required flag and its schema); a name declared only at path
\* level keeps the validator of its path-level declaration.
C21_OperationLevelWinsPathLevelKept ==
  (compiled # NotCompiled /\ ~IsThrowValue(compiled)) =>
    /\ \A name \in {"id", "limit"} :
         DeclaredSomewhere(name) =>
           \E i \in 1..Len(compiled.parameters.entries) :
             compiled.parameters.entries[i].name = name
    /\ (probe # NoProbe /\ probe.site \in {"id", "limit"}) =>
         (probe.success <=> DeclaredAdmits(Deciding(probe.site), probe.input))

\* the same for the names the operation declares itself
C21_OperationLevelDeclarationDecides ==
  (probe # NoProbe /\ probe.site \in {"id", "limit"}) =>
    /\ DeclarationsOf(document.item.post.parameters, probe.site) # <<>>
    /\ probe.success <=> DeclaredAdmits(Deciding(probe.site), probe.input)

\* the JSON schema of the request body the document declares, if any
DeclaresJsonSchema ==
  /\ Has(document.item.post, "requestBody")
  /\ Has(document.item.post.requestBody.content, "application/json")

BodyRequired ==
  /\ Has(document.item.post.requestBody, "required")
  /\ document.item.post.requestBody.required

\* C22: the request-body validator comes from the application/json media type
\* alone: without a body, or with other media types only, there is none; with
\* an application/json schema the validator accepts what the schema accepts and
\* an absent body exactly when the body is not required.
C22_BodyValidatorFromJsonOnly ==
  (compiled # NotCompiled /\ ~IsThrowValue(compiled)) =>
    /\ (compiled.requestBody # NoZod) <=> DeclaresJsonSchema
    /\ (probe # NoProbe /\ probe.site = "application/json") =>
         (probe.success <=>
            \/ ~BodyRequired /\ probe.input = Undefined
            \/ probe.input.k =
                 KindOf(document.item.post.requestBody.content["application/json"].schema.type))

\* C22 witness: an optional body with JSON and text/plain schemas compiled to
\* the JSON validator, which took the absent body
C22_Witness ==
  /\ DeclaresJsonSchema
  /\ Has(document.item.post.requestBody.content, "text/plain")
  /\ ~BodyRequired
  /\ probe # NoProbe
  /\ probe.site = "application/json"
  /\ probe.input = Undefined
  /\ probe.success

\* C30: in every compiled operation each name of the path-parameter list has a
\* validator in the parameter mapping, also when the path parameter is declared
\* by reference, without a schema, or at path level.
C30_PathParametersHaveValidators ==
  (compiled # NotCompiled /\ ~IsThrowValue(compiled)) =>
    \A k \in 1..Len(compiled.pathParameters) :
      \E i \in 1..Len(compiled.parameters.entries) :
        compiled.parameters.entries[i].name = compiled.pathParameters[k]

\* the same for the path parameters the operation declares with a schema
C30_DeclaredWithSchemaHaveValidators ==
  (compiled # NotCompiled /\ ~IsThrowValue(compiled)) =>
    \A k \in 1..Len(document.item.post.parameters) :
      (/\ ~Has(document.item.post.parameters[k], "ref")
       /\ Has(document.item.post.parameters[k], "schema")
       /\ document.item.post.parameters[k].in = "path") =>
        /\ document.item.post.parameters[k].name \in SeqRange(compiled.pathParameters)
        /\ \E i \in 1..Len(compiled.parameters.entries) :
             compiled.parameters.entries[i].name = document.item.post.parameters[k].name

\* ------------------------------------------------- runs of schema nodes
\* a schema node holding any of the keys $ref, enum, allOf, oneOf, anyOf, type
\* and nullable; each key alone admits values of another kind
NodeKeys(r, e, a, o, y, t, n) ==
  (IF r THEN {"ref"} ELSE {})
  \cup (IF e # "none" THEN {"enum"} ELSE {})
  \cup (IF a THEN {"allOf"} ELSE {})
  \cup (IF o THEN {"oneOf"} ELSE {})
  \cup (IF y THEN {"anyOf"} ELSE {})
  \cup (IF t # "none" THEN {"type"} ELSE {})
  \cup (IF t = "array" THEN {"items"} ELSE {})
  \cup (IF n THEN {"nullable"} ELSE {})

Node(r, e, a, o, y, t, n) ==
  [k \in NodeKeys(r, e, a, o, y, t, n) |->
     CASE k = "ref" -> <<"schemas", "A">>
       [] k = "enum" -> IF e = "empty" THEN <<>> ELSE <<<<"x">>>>
       [] k = "allOf" -> <<[type |-> "boolean"]>>
       [] k = "oneOf" -> <<[type |-> "integer"]>>
       [] k = "anyOf" -> <<[type |-> "string"]>>
       [] k = "type" -> t
       [] k = "items" -> [type |-> "string"]
       [] k = "nullable" -> TRUE]

SchemaNodes ==
  {Node(r, e, a, o, y, t, n) :
     r \in BOOLEAN, e \in {"none", "empty", "x"}, a \in BOOLEAN, o \in BOOLEAN,
     y \in BOOLEAN, t \in {"none", "string", "array", "object"}, n \in BOOLEAN}

\* components.schemas.A, the target of the $ref of a node
NodeComponents == [schemas |-> [c \in {"A"} |-> [type |-> "object"]]]

NodeValues ==
  ProbeValues \cup {ObjVal(<<>>), [k |-> "array", v |-> <<StrVal(<<"x">>)>>]}

InitNode ==
  /\ document \in {[node |-> node, components |-> NodeComponents] : node \in SchemaNodes}
  /\ compiled = NotCompiled
  /\ probe = NoProbe
  /\ schema = <<>>
  /\ showWarehouseNative = FALSE
  /\ toolNames = {}
  /\ assigned = <<>>
  /\ tools = <<>>
  /\ calls = <<>>
  /\ main = NoMain
  /\ fetches = <<>>

\* convertSchemaObjectToZod(schemaObject, components) on the node of the run
ConvertNode ==
  /\ compiled = NotCompiled
  /\ compiled' = ConvertSchemaObjectToZod(document.node, document.components, StackLimit)
  /\ UNCHANGED <<registryVars, document, probe, calls, main, fetches>>

NextNode == ConvertNode \/ \E value \in NodeValues : SafeParse(value)

SpecNode == InitNode /\ [][NextNode]_vars

\* ------------------------------------------------ claims on schema nodes
\* the key of the node that comes first in the order reference > enum (with a
\* value) > allOf > oneOf > anyOf > type, or "none"
FirstKey(node) ==
  IF Has(node, "ref") THEN "ref"
  ELSE IF Has(node, "enum") /\ node.enum # <<>> THEN "enum"
  ELSE IF Has(node, "allOf") THEN "allOf"
  ELSE IF Has(node, "oneOf") THEN "oneOf"
  ELSE IF Has(node, "anyOf") THEN "anyOf"
  ELSE IF Has(node, "type") THEN "type"
  ELSE "none"

\* what the key alone says of a value that is not null
KeyAdmits(node, key, value) ==
  CASE key = "ref" -> value.k = "object"
    [] key = "enum" -> value = StrVal(<<"x">>)
    [] key = "allOf" -> value.k = "boolean"
    [] key = "oneOf" -> value.k = "number"
    [] key = "anyOf" -> value.k = "string"
    [] key = "type" -> value.k = node.type
    [] key = "none" -> TRUE

\* C26: schema conversion follows the precedence reference > enum (with at
\* least one value) > allOf > oneOf > anyOf > typed > untyped: the compiled
\* validator is that of the first key present, the keys after it do not change
\* which values are accepted, and a node with none of them accepts anything.
C26_FirstKeyDecides ==
  /\ compiled # NotCompiled => ~IsThrow(compiled)
  /\ (probe # NoProbe /\ probe.input # Null) =>
       (probe.success <=> KeyAdmits(document.node, FirstKey(document.node), probe.input))
  /\ (probe # NoProbe /\ FirstKey(document.node) = "none") => probe.success

\* C26 witness: a node with enum, allOf, oneOf, anyOf and type took "x" and
\* nothing else, and a node with an empty enum beside oneOf and type took 7
C26_Witness ==
  /\ probe # NoProbe
  /\ \/ /\ document.node = Node(FALSE, "x", TRUE, TRUE, TRUE, "string", FALSE)
        /\ probe.input = StrVal(<<"y">>)
        /\ ~probe.success
     \/ /\ document.node = Node(FALSE, "empty", FALSE, TRUE, FALSE, "string", FALSE)
        /\ probe.input = NumVal(<<"7">>)
        /\ probe.success

\* C27: for every schema node with nullable: true, whatever its variant
\* (primitive, array, object, enum, allOf, oneOf, anyOf), the compiled validator
\* accepts null beside every value the node accepts without nullable; a node of
\* a primitive type without nullable: true rejects null.
C27_NullableAcceptsNull ==
  (probe # NoProbe /\ probe.input = Null /\ FirstKey(document.node) \notin {"ref", "none"}) =>
    (probe.success <=> Has(document.node, "nullable"))

\* the same for the nodes that are converted by their type
C27_TypedNullableAcceptsNull ==
  (probe # NoProbe /\ probe.input = Null /\ FirstKey(document.node) = "type") =>
    (probe.success <=> Has(document.node, "nullable"))

\* ------------------------------------------- claims on concurrent dispatch
\* the arguments of dispatch c as validation hands them to the handler
ValidatedArguments(c) ==
  Output(ZObject(EnhancedParameters(ToolOf(c).methodsToUse)), calls[c].arguments).v

\* the request and the result of every dispatch are those of its own
\* arguments and its own upstream response
OwnRequestOwnResult ==
  \A c \in 1..Len(calls) :
    /\ Issued(c) => calls[c].request = Request(ToolOf(c), ValidatedArguments(c))
    /\ Answered(c) => calls[c].result = HandleResponse(calls[c].response)
    /\ (Issued(c) /\ calls[c].stage = "done" /\ ~Answered(c))
         => calls[c].result = Rethrown(<<"fetch failed">>)

\* C23: for any number of dispatches interleaved at their network suspension
\* points, failing ones included, the tool registry (identifiers, path
\* templates, verbs, path-parameter lists) is never changed by a dispatch, and
\* the request and the result of each dispatch depend only on its own arguments
\* and its own upstream response.
C23_DispatchesAreIndependent ==
  []OwnRequestOwnResult /\ [][registryVars' = registryVars]_vars

\* C23 witness: a second dispatch started while the first was waiting for its
\* fetch and failed, the first is still waiting, and the registry holds its tool
C23_Witness ==
  /\ Len(calls) = 2
  /\ calls[1].stage = "fetching"
  /\ calls[2].stage = "done"
  /\ Issued(2)
  /\ calls[2].result = Rethrown(<<"fetch failed">>)
  /\ calls[1].arguments # calls[2].arguments
  /\ Len(tools) = 1

\* ------------------------------------------- claims on upstream requests
\* how many times a function has called fetch (for a handler: in dispatch c)
FetchesBy(by, call) ==
  Cardinality({k \in 1..Len(fetches) : fetches[k] = Fetch(by, call)})

\* whether dispatch c has ended in a failure of its request
RequestFailed(c) ==
  /\ Issued(c)
  /\ calls[c].stage = "done"
  /\ Answered(c) => ~IsOk(calls[c].response.status)

AtMostOneRequestEach ==
  /\ FetchesBy("fetchOpenApiSpec", 0) <= 1
  /\ main.pc \in {"company", "loading"} => FetchesBy("fetchOpenApiSpec", 0) = 0
  /\ (\/ document # NoDocument
      \/ main.response # NoResponse
      \/ main.pc \in {"compiling", "building", "connected"})
       => FetchesBy("fetchOpenApiSpec", 0) = 1
  /\ \A c \in 1..Len(calls) :
       /\ FetchesBy("handler", c) = (IF Issued(c) THEN 1 ELSE 0)
       /\ RequestFailed(c) => calls[c].result.isError
  /\ \A k \in 1..Len(fetches) :
       fetches[k].by = "handler" => fetches[k].call \in 1..Len(calls)

\* a step that ends the load has sent one request for the document, and no
\* step sends a request for a dispatch that has ended
OneRequestPerLoadNoneAfterTheEnd ==
  /\ (main.pc = "loading" /\ main'.pc # "loading")
       => fetches' = Append(fetches, Fetch("fetchOpenApiSpec", 0))
  /\ main.pc \notin {"loading", "company"} =>
       FetchesBy("fetchOpenApiSpec", 0)' = FetchesBy("fetchOpenApiSpec", 0)
  /\ \A c \in 1..Len(calls) :
       calls[c].stage = "done" =>
         /\ calls'[c] = calls[c]
         /\ FetchesBy("handler", c)' = FetchesBy("handler", c)

\* C24: there are no retries: one load of the document is exactly one fetch of
\* the document URL, one dispatch sends at most one upstream request whether it
\* ends in success, in a non-success status or in a network failure, and after
\* a failure the caller sees the failure and no further request is sent.
C24_NoRetries ==
  []AtMostOneRequestEach /\ [][OneRequestPerLoadNoneAfterTheEnd]_vars

\* C24 witness: the one request of a dispatch was rejected by the network; the
\* caller has the failure, and the log holds one request for the company, one
\* for the document and one for the dispatch
C24_Witness ==
  /\ main.pc = "connected"
  /\ Len(calls) = 1
  /\ RequestFailed(1)
  /\ ~Answered(1)
  /\ calls[1].result = Rethrown(<<"fetch failed">>)
  /\ fetches = <<Fetch("isWarehouseNative", 0), Fetch("fetchOpenApiSpec", 0),
                 Fetch("handler", 1)>>

\* ------------------------------------------- claims on the deployment mode
\* the operation of the document that stands behind a verb of a tool
DocumentOperation(endpoint, verb) ==
  document.paths[CHOOSE i \in 1..Len(document.paths) :
                   document.paths[i].path = endpoint].item[verb]

\* whether some tag of the operation contains "(Warehouse Native)"
TaggedWarehouseNative(operation) ==
  \E i \in 1..Len(operation.tags) :
    \E j \in 1..Len(operation.tags[i]) : operation.tags[i][j] = "(Warehouse Native)"

\* the verbs of a compiled path that are of the mode
VerbsOfMode(entry, mode) ==
  {entry.methods[o].verb : o \in {o \in 1..Len(entry.methods) :
      TaggedWarehouseNative(DocumentOperation(entry.endpoint, entry.methods[o].verb)) = mode}}

\* C25: in mode showWarehouseNative = b every registered tool offers and
\* dispatches only verbs whose operation has the Warehouse Native flag equal to
\* b, the flag being that some tag of the operation contains
\* "(Warehouse Native)"; a path with no such verb is not registered at all.
C25_ToolsOfferVerbsOfTheModeOnly ==
  /\ \A t \in 1..Len(tools) :
       /\ tools[t].methodNames # <<>>
       /\ \A o \in 1..Len(tools[t].methodNames) :
            TaggedWarehouseNative(DocumentOperation(tools[t].endpoint, tools[t].methodNames[o]))
              = showWarehouseNative
  /\ \A e \in 1..Len(schema) :
       (\E t \in 1..Len(tools) : tools[t].endpoint = schema[e].endpoint)
         <=> VerbsOfMode(schema[e], showWarehouseNative) # {}
  /\ \A c \in 1..Len(calls) :
       Issued(c) =>
         TaggedWarehouseNative(DocumentOperation(ToolOf(c).endpoint, calls[c].request.method))
           = showWarehouseNative

\* C25 witness: of a path with a GET beside a Warehouse Native POST and a path
\* with a GET alone, the Warehouse Native server registered the first with its
\* POST alone, sent a POST for it and refused a GET
C25_Witness ==
  /\ showWarehouseNative
  /\ Len(schema) = 2
  /\ Len(tools) = 1
  /\ tools[1].endpoint = schema[1].endpoint
  /\ MethodNames(schema[1].methods) = <<"get", "post">>
  /\ tools[1].methodNames = <<"post">>
  /\ MethodNames(schema[2].methods) = <<"get">>
  /\ Len(calls) = 1
  /\ Issued(1)
  /\ calls[1].request.method = "post"

\* ------------------------------------------------ claims on the startup order
\* the registry holds a tool for every compiled path that has a verb of the mode
RegistryComplete ==
  /\ compiled # NotCompiled
  /\ ~IsThrowValue(compiled)
  /\ schema = compiled.entries
  /\ \A e \in 1..Len(compiled.entries) :
       Len(MethodsToUse(compiled.entries[e].methods, showWarehouseNative)) > 0
         => \E t \in 1..Len(tools) : tools[t].endpoint = compiled.entries[e].endpoint

ConnectedAfterRegistration ==
  /\ main.pc = "connected" => (document # NoDocument /\ RegistryComplete)
  /\ calls # <<>> => main.pc = "connected"
  /\ main.pc = "exited" => (main.code = 1 /\ calls = <<>>)
  /\ (main.response # NoResponse /\ ~IsOk(main.response.status)) => main.pc = "exited"
  /\ IsThrowValue(compiled) => main.pc = "exited"

\* C28: the transport is connected only after the load, the compile pass and
\* the registration of every tool have completed; when the load or the compile
\* pass raises, the process exits with status 1, the transport is never
\* connected and no dispatch is served from a partly built registry.
C28_ConnectOnlyAfterRegistration ==
  /\ []ConnectedAfterRegistration
  /\ [][/\ main'.pc = "connected" =>
            (main.pc = "connected" \/ (main.pc = "building" /\ RegistryComplete))
        /\ main.pc = "exited" => main'.pc = "exited"]_vars

\* C28 witness: two tools were registered before the transport was connected,
\* and a dispatch was served after it
C28_Witness ==
  /\ main.pc = "connected"
  /\ Len(compiled.entries) = 2
  /\ Len(tools) = 2
  /\ Len(calls) = 1
  /\ calls[1].tool = 2
  /\ Issued(1)

\* ---------------------------------------- claims on identifiers and the mode
\* C29: the identifier of a path does not depend on the deployment mode: it is
\* that of the compiled paths up to it, whether or not they are registered, so
\* a path that is registered under both modes carries the same identifier under
\* both; a skipped path reserves its identifier and counts for the suffix.
C29_IdentifierIndependentOfMode ==
  (compiled # NotCompiled /\ ~IsThrowValue(compiled)) =>
    \A t \in 1..Len(tools) :
      \E e \in 1..Len(schema) :
        /\ compiled.entries[e].endpoint = tools[t].endpoint
        /\ tools[t].toolName =
             IdsOfPaths([k \in 1..e |-> compiled.entries[k].endpoint])[e]

\* C29 witness: the Warehouse Native server skipped "/a_b" and registered
\* "/a-b", which is registered under both modes, as "-a-b-1"
C29_Witness ==
  /\ showWarehouseNative
  /\ Len(schema) = 2
  /\ MethodsToUse(schema[1].methods, TRUE) = <<>>
  /\ MethodsToUse(schema[2].methods, TRUE) # <<>>
  /\ MethodsToUse(schema[2].methods, FALSE) # <<>>
  /\ Len(tools) = 1
  /\ tools[1].endpoint = <<"/", "a", "-", "b">>
  /\ tools[1].toolName = <<"-", "a", "-", "b", "-", "1">>

====
